---------------------------- MODULE Spec2Model ----------------------------
(***************************************************************************)
(* A model of the trust-region SQP solver of trajopt_sqp                   *)
(* (trust_region_sqp_solver.cpp).                                          *)
(*                                                                         *)
(* The QP problem and the QP solver are external collaborators: what they  *)
(* return (whether a solve succeeds, the exact and convexified costs and   *)
(* constraint violations of a candidate, what a callback answers, whether  *)
(* the wall clock has passed max_time) is drawn from small sets.  Doubles  *)
(* are modelled exactly: merits are integers, box sizes and ratios are     *)
(* fractions <<n, d>> with d >= 0, where d = 0 stands for the IEEE values  *)
(* +inf (<<1,0>>), -inf (<<-1,0>>) and NaN (<<0,0>>).  A vector of         *)
(* variable values is named by a token: 0 is the x0 the problem holds when *)
(* solve() is called, i > 0 is the solution of the i-th QP solve.  The     *)
(* fields of results_ that the solver only writes (the convexified cost    *)
(* and violation vectors and the best_approx_* copies of them) are left    *)
(* out; new_approx_merit, from which the tests are computed, is kept.      *)
(***************************************************************************)
EXTENDS Integers, Sequences, FiniteSets, TLC

VARIABLES
    pc,                  \* where solve() stands
    params,              \* TrustRegionSQPSolver::params
    callbacks,           \* callbacks_ (the number registered)
    status,              \* status_
    results,             \* results_
    qp_vars,             \* the variable values held by qp_problem
    qp_solver,           \* the QP held by qp_solver: where its matrices were
                         \* convexified, the box its bounds were updated for
    penalty_iteration,   \* loop variable of solve()
    convex_iteration,    \* loop variable of solve()
    qp_solver_failures,  \* local of runTrustRegionLoop()
    hist,                \* history of the run (not program state)
    collision_config,    \* the TrajOptCollisionConfig of the evaluators
    collision_cache,     \* the CollisionCache the evaluators share
    objects,             \* the number of CollisionCacheData objects made
    contact_manager,     \* what the latest call asked of the contact managers
    reply,               \* the latest CalcCollisionData call and its result
    constraint,          \* the ContinuousCollisionNumericalConstraint
    joint_vals,          \* the values of the two JointPosition variable sets
    outcome              \* what the latest call of the constraint gave back

solverVars == <<pc, params, callbacks, status, results, qp_vars, qp_solver,
                penalty_iteration, convex_iteration, qp_solver_failures, hist>>

evaluatorVars == <<collision_config, collision_cache, objects, contact_manager,
                   reply>>

constraintVars == <<constraint, joint_vals, outcome>>

vars == <<solverVars, evaluatorVars, constraintVars>>

\* A CollisionCacheData just constructed
CollisionCacheData == [contact_results_map |-> << >>, gradient_results_sets |-> << >>]

\* No CalcCollisionData call has been made: reply.id names no object
NoReply ==
    [ id |-> 0, hit |-> FALSE, data |-> CollisionCacheData, evaluator |-> "none",
      dof_vals0 |-> 0, dof_vals1 |-> 0,
      position_vars_fixed |-> <<FALSE, FALSE>>, bounds_size |-> 0 ]

\* A contact manager that has been asked nothing
NoContactTests == [tests |-> << >>, transforms |-> 0]

\* No collision evaluator has been built
noEvaluator ==
    /\ collision_config = [longest_valid_segment_length |-> 1,
                           collision_margin_buffer |-> 1]
    /\ collision_cache = {}
    /\ objects = 0
    /\ contact_manager = NoContactTests
    /\ reply = NoReply

\* No constraint has been constructed
NoConstraint == [built |-> FALSE]

\* No call of the constraint has been made
NoOutcome == [call |-> "none"]

\* No collision constraint has been built
noConstraint ==
    /\ constraint = NoConstraint
    /\ joint_vals = <<0, 0>>
    /\ outcome = NoOutcome

---------------------------------------------------------------------------
(* Bounds of the model *)

NumVars == 2
NumCnts == 1
NumCosts == 1
MaxCost == 1
MaxViol == 2
MaxCallbacks == 1
MaxCallbacksInOrder == 2
MaxIterations == 2
MaxMeritCoeffIncreases == 2
MaxQPSolverFailures == 2

(* The literal bound of the convexification loop *)
ConvexIterationLimit == 100

---------------------------------------------------------------------------
(* Exact arithmetic on doubles *)

RECURSIVE GCD(_, _)
GCD(a, b) == IF b = 0 THEN a ELSE GCD(b, a % b)

Abs(a) == IF a < 0 THEN -a ELSE a

Sign(a) == IF a < 0 THEN -1 ELSE IF a > 0 THEN 1 ELSE 0

\* n / d as a fraction in lowest terms with a positive denominator;
\* x / 0 is +inf, -inf or NaN as IEEE 754 has it
Frac(n, d) ==
    IF d = 0 THEN <<Sign(n), 0>>
    ELSE LET g == GCD(Abs(n), Abs(d))
             s == IF d < 0 THEN -1 ELSE 1
         IN  <<(s * n) \div g, (s * d) \div g>>

IsNaN(a) == a[1] = 0 /\ a[2] = 0

\* a < b on doubles: false when either side is NaN
FLess(a, b) ==
    IF IsNaN(a) \/ IsNaN(b) THEN FALSE
    ELSE IF a[2] = 0 /\ b[2] = 0 THEN a[1] < b[1]
    ELSE IF a[2] = 0 THEN a[1] < 0
    ELSE IF b[2] = 0 THEN b[1] > 0
    ELSE a[1] * b[2] < b[1] * a[2]

FMul(a, b) == Frac(a[1] * b[1], a[2] * b[2])

FDiv(a, b) == Frac(a[1] * b[2], a[2] * b[1])

\* fmax(a, b)
FMax(a, b) == IF FLess(a, b) THEN b ELSE a

RECURSIVE FPow(_, _)
FPow(a, k) == IF k = 0 THEN <<1, 1>> ELSE FMul(a, FPow(a, k - 1))

RECURSIVE Sum(_)
Sum(s) == IF s = <<>> THEN 0 ELSE Head(s) + Sum(Tail(s))

RECURSIVE Dot(_, _)
Dot(s, t) == IF s = <<>> THEN 0 ELSE Head(s) * Head(t) + Dot(Tail(s), Tail(t))

\* Eigen's maxCoeff() of a non-empty vector of integers
RECURSIVE MaxCoeff(_)
MaxCoeff(s) ==
    IF Len(s) = 1 THEN s[1]
    ELSE LET m == MaxCoeff(Tail(s)) IN IF s[1] > m THEN s[1] ELSE m

\* Eigen's maxCoeff() of a non-empty vector of doubles
RECURSIVE FMaxCoeff(_)
FMaxCoeff(s) ==
    IF Len(s) = 1 THEN s[1]
    ELSE LET m == FMaxCoeff(Tail(s)) IN IF FLess(m, s[1]) THEN s[1] ELSE m

\* Eigen::VectorXd::Constant(n, v)
Constant(n, v) == [i \in 1..n |-> v]

\* v * k, entry by entry
Scale(v, k) == [i \in 1..Len(v) |-> FMul(v[i], k)]

---------------------------------------------------------------------------
(* Inputs *)

\* The SQPParameters a caller may set before solve().  max_time is not a
\* field here: whether the clock has passed it is drawn at each test.
\* In every choice trust_shrink_ratio is in (0,1) and trust_expand_ratio and
\* merit_coeff_increase_ratio are above 1.  The first choice has the shape of
\* the defaults (a box that starts well above its floor, no test of the
\* improvement fraction, constraints inflated one by one); the second starts
\* the box lower, tests the improvement fraction and inflates uniformly; the
\* third allows no penalty iteration at all.
BaseParams ==
    [ initial_trust_box_size |-> <<1, 1>>,
      min_trust_box_size |-> <<1, 4>>,
      trust_shrink_ratio |-> <<1, 2>>,
      trust_expand_ratio |-> <<3, 2>>,
      improve_ratio_threshold |-> <<1, 4>>,
      min_approx_improve |-> 1,
      min_approx_improve_frac |-> <<-1, 0>>,
      max_iterations |-> MaxIterations,
      max_merit_coeff_increases |-> MaxMeritCoeffIncreases,
      merit_coeff_increase_ratio |-> 2,
      initial_merit_error_coeff |-> 1,
      cnt_tolerance |-> 1,
      max_qp_solver_failures |-> MaxQPSolverFailures,
      inflate_constraints_individually |-> TRUE ]

ParamChoices ==
    { BaseParams,
      [BaseParams EXCEPT !.initial_trust_box_size = <<1, 2>>,
                         !.min_approx_improve_frac = <<1, 4>>,
                         !.inflate_constraints_individually = FALSE],
      [BaseParams EXCEPT !.max_merit_coeff_increases = 0] }

\* What the problem can report as exact or convexified cost values
CostVectors == [1..NumCosts -> 0..MaxCost]

\* What the problem can report as constraint violations of n constraints
ViolVectors(n) == [1..n -> 0..MaxViol]

\* The numbers of constraints a problem may have
CntCounts == {0, NumCnts}

Statuses ==
    {"RUNNING", "NLP_CONVERGED", "ITERATION_LIMIT", "OPT_TIME_LIMIT",
     "PENALTY_ITERATION_LIMIT", "QP_SOLVER_ERROR", "CALLBACK_STOPPED"}

---------------------------------------------------------------------------
(* Helpers of the solver *)

\* results_ = SQPResults(num_vars, num_cnts, num_costs): every field zero
SQPResults(n_cnts) ==
    [ best_var_vals |-> 0,
      new_var_vals |-> 0,
      best_costs |-> Constant(NumCosts, 0),
      new_costs |-> Constant(NumCosts, 0),
      best_constraint_violations |-> Constant(n_cnts, 0),
      new_constraint_violations |-> Constant(n_cnts, 0),
      best_exact_merit |-> 0,
      new_exact_merit |-> 0,
      new_approx_merit |-> 0,
      approx_merit_improve |-> 0,
      exact_merit_improve |-> 0,
      merit_improve_ratio |-> <<0, 1>>,
      merit_error_coeffs |-> Constant(n_cnts, 0),
      box_size |-> Constant(NumVars, <<0, 1>>),
      penalty_iteration |-> 0,
      convexify_iteration |-> 0,
      trust_region_iteration |-> 0,
      overall_iteration |-> 0 ]

\* TrustRegionSQPSolver::setBoxSize
setBoxSize(r, box_size) ==
    [r EXCEPT !.box_size = Constant(NumVars, box_size)]

\* A slip: only the first entry of the box is scaled
scaleBoxSize_firstOnly(r, ratio) ==
    [r EXCEPT !.box_size[1] = FMul(@, ratio)]

\* qp_problem->scaleBoxSize(ratio); results_.box_size = qp_problem->getBoxSize()
scaleBoxSize(r, ratio) ==
    [r EXCEPT !.box_size = Scale(r.box_size, ratio)]

\* TrustRegionSQPSolver::constraintMeritCoeffChanged
constraintMeritCoeffChanged(r) ==
    [r EXCEPT !.best_exact_merit =
        Sum(r.best_costs) + Dot(r.best_constraint_violations, r.merit_error_coeffs)]

\* A slip: init leaves out constraintMeritCoeffChanged()
init_staleMerit(p, costs, viols) ==
    LET r0 == SQPResults(Len(viols))
        r1 == [r0 EXCEPT !.best_var_vals = 0,
                         !.merit_error_coeffs =
                             Constant(Len(viols), p.initial_merit_error_coeff),
                         !.best_costs = costs,
                         !.best_constraint_violations = viols]
    IN  setBoxSize(r1, p.initial_trust_box_size)

\* TrustRegionSQPSolver::init, for a problem that holds x0 with these exact
\* costs and constraint violations
init(p, costs, viols) ==
    LET r0 == SQPResults(Len(viols))
        r1 == [r0 EXCEPT !.best_var_vals = 0,
                         !.merit_error_coeffs =
                             Constant(Len(viols), p.initial_merit_error_coeff),
                         !.best_costs = costs,
                         !.best_constraint_violations = viols]
    IN  constraintMeritCoeffChanged(setBoxSize(r1, p.initial_trust_box_size))

\* A slip: the status of the step is taken for the result of the test
verifySQPSolverConvergence_always(p, r) == TRUE

\* A slip: the convergence test lets a violation equal to the tolerance pass
verifySQPSolverConvergence_atTolerance(p, r) ==
    IF Len(r.best_constraint_violations) = 0 THEN TRUE
    ELSE MaxCoeff(r.best_constraint_violations) <= p.cnt_tolerance

\* A slip: the test for a problem without constraints is left out, and such a
\* problem never passes
verifySQPSolverConvergence_noEmptyTest(p, r) ==
    /\ Len(r.best_constraint_violations) # 0
    /\ MaxCoeff(r.best_constraint_violations) < p.cnt_tolerance

\* TrustRegionSQPSolver::verifySQPSolverConvergence
verifySQPSolverConvergence(p, r) ==
    IF Len(r.best_constraint_violations) = 0 THEN TRUE
    ELSE MaxCoeff(r.best_constraint_violations) < p.cnt_tolerance

\* A slip: the ratio is added to the coefficients
inflatedCoeffs_added(p, r) ==
    IF p.inflate_constraints_individually
    THEN [i \in 1..Len(r.merit_error_coeffs) |->
            IF r.best_constraint_violations[i] > p.cnt_tolerance
            THEN r.merit_error_coeffs[i] + p.merit_coeff_increase_ratio
            ELSE r.merit_error_coeffs[i]]
    ELSE [i \in 1..Len(r.merit_error_coeffs) |->
            r.merit_error_coeffs[i] + p.merit_coeff_increase_ratio]

\* The merit coefficients after TrustRegionSQPSolver::adjustPenalty
inflatedCoeffs(p, r) ==
    IF p.inflate_constraints_individually
    THEN [i \in 1..Len(r.merit_error_coeffs) |->
            IF r.best_constraint_violations[i] > p.cnt_tolerance
            THEN r.merit_error_coeffs[i] * p.merit_coeff_increase_ratio
            ELSE r.merit_error_coeffs[i]]
    ELSE [i \in 1..Len(r.merit_error_coeffs) |->
            r.merit_error_coeffs[i] * p.merit_coeff_increase_ratio]

\* A slip: the factor 1.5 is left out
penaltyBoxFloor_noMargin(p) == FDiv(p.min_trust_box_size, p.trust_shrink_ratio)

\* min_trust_box_size / trust_shrink_ratio * 1.5
penaltyBoxFloor(p) ==
    FMul(FDiv(p.min_trust_box_size, p.trust_shrink_ratio), <<3, 2>>)

\* A slip: the best exact merit is not recomputed with the new coefficients
adjustPenalty_staleMerit(p, r) ==
    LET r1 == [r EXCEPT !.merit_error_coeffs = inflatedCoeffs(p, r)]
    IN  setBoxSize(r1, FMax(r1.box_size[1], penaltyBoxFloor(p)))

\* TrustRegionSQPSolver::adjustPenalty
adjustPenalty(p, r) ==
    LET r1 == [r EXCEPT !.merit_error_coeffs = inflatedCoeffs(p, r)]
        r2 == setBoxSize(r1, FMax(r1.box_size[1], penaltyBoxFloor(p)))
    IN  constraintMeritCoeffChanged(r2)

\* A slip: the iteration budget counts as spent only once it is exceeded
iterationLimitReached_late(p, r) == r.overall_iteration > p.max_iterations

\* results_.overall_iteration >= params.max_iterations
iterationLimitReached(p, r) == r.overall_iteration >= p.max_iterations

\* results_.box_size.maxCoeff() < params.min_trust_box_size
boxIsTiny(p, r) == FLess(FMaxCoeff(r.box_size), p.min_trust_box_size)

\* The success branch of TrustRegionSQPSolver::solveQPProblem up to the
\* callbacks: x is the QP solution, the four vectors are what the problem
\* evaluates at x
solveQPSucceeded(r, x, costs, viols, approx_costs, approx_viols) ==
    LET new_approx_merit == Sum(approx_costs) + Dot(approx_viols, r.merit_error_coeffs)
        approx_merit_improve == r.best_exact_merit - new_approx_merit
        new_exact_merit == Sum(costs) + Dot(viols, r.merit_error_coeffs)
        exact_merit_improve == r.best_exact_merit - new_exact_merit
    IN  [r EXCEPT !.new_var_vals = x,
                  !.new_approx_merit = new_approx_merit,
                  !.approx_merit_improve = approx_merit_improve,
                  !.new_costs = costs,
                  !.new_constraint_violations = viols,
                  !.new_exact_merit = new_exact_merit,
                  !.exact_merit_improve = exact_merit_improve,
                  !.merit_improve_ratio = Frac(exact_merit_improve, approx_merit_improve)]

\* A slip: only a negative improvement counts as small
improvementIsSmall_negativeOnly(p, r) == r.approx_merit_improve < 0

\* results_.approx_merit_improve < params.min_approx_improve
improvementIsSmall(p, r) == r.approx_merit_improve < p.min_approx_improve

\* results_.approx_merit_improve / results_.best_exact_merit
\*     < params.min_approx_improve_frac
improvementRatioIsSmall(p, r) ==
    FLess(Frac(r.approx_merit_improve, r.best_exact_merit), p.min_approx_improve_frac)

\* A slip: the test of the improvement ratio is left out
stepIsRejected_noRatioTest(p, r) == r.exact_merit_improve < 0

\* results_.exact_merit_improve < 0
\*     || results_.merit_improve_ratio < params.improve_ratio_threshold
stepIsRejected(p, r) ==
    \/ r.exact_merit_improve < 0
    \/ FLess(r.merit_improve_ratio, p.improve_ratio_threshold)

\* A slip: the accepted step's variable values are not taken over
acceptStep_keepsVarVals(p, r) ==
    scaleBoxSize(
        [r EXCEPT !.best_exact_merit = r.new_exact_merit,
                  !.best_constraint_violations = r.new_constraint_violations,
                  !.best_costs = r.new_costs],
        p.trust_expand_ratio)

\* The accepted branch of runTrustRegionLoop: best <- new, box expanded
acceptStep(p, r) ==
    scaleBoxSize(
        [r EXCEPT !.best_var_vals = r.new_var_vals,
                  !.best_exact_merit = r.new_exact_merit,
                  !.best_constraint_violations = r.new_constraint_violations,
                  !.best_costs = r.new_costs],
        p.trust_expand_ratio)

\* A slip: only the counter of the trust-region loop is advanced
countIteration_trustRegionOnly(r) ==
    [r EXCEPT !.trust_region_iteration = @ + 1]

\* The counters runTrustRegionLoop advances before each QP solve
countIteration(r) ==
    [r EXCEPT !.overall_iteration = @ + 1, !.trust_region_iteration = @ + 1]

\* A slip: a failed pass scales the box by trust_expand_ratio
failureLadder_expands(p, r, f) ==
    IF f < p.max_qp_solver_failures
    THEN [results |-> scaleBoxSize(r, p.trust_expand_ratio), continue |-> TRUE]
    ELSE IF f = p.max_qp_solver_failures
    THEN [results |-> setBoxSize(r, p.min_trust_box_size), continue |-> TRUE]
    ELSE [results |-> r, continue |-> FALSE]

\* A slip: the box is clamped one failure later
failureLadder_lateClamp(p, r, f) ==
    IF f <= p.max_qp_solver_failures
    THEN [results |-> scaleBoxSize(r, p.trust_shrink_ratio), continue |-> TRUE]
    ELSE IF f = p.max_qp_solver_failures + 1
    THEN [results |-> setBoxSize(r, p.min_trust_box_size), continue |-> TRUE]
    ELSE [results |-> r, continue |-> FALSE]

\* The branch of runTrustRegionLoop taken when solveQPProblem did not return
\* RUNNING, with f the failure count after its increment: the results and
\* whether the loop goes on
failureLadder(p, r, f) ==
    IF f < p.max_qp_solver_failures
    THEN [results |-> scaleBoxSize(r, p.trust_shrink_ratio), continue |-> TRUE]
    ELSE IF f = p.max_qp_solver_failures
    THEN [results |-> setBoxSize(r, p.min_trust_box_size), continue |-> TRUE]
    ELSE [results |-> r, continue |-> FALSE]

---------------------------------------------------------------------------
(* The state machine *)

\* What the problem evaluated at the iterate x: qp_problem->getExactCosts()
\* and getExactConstraintViolations() in init(), evaluateExactCosts() and
\* evaluateExactConstraintViolations() in solveQPProblem()
evaluated(x, costs, viols) == [x |-> x, costs |-> costs, viols |-> viols]

\* No callback was executed: the log of a pass whose QP solve failed
NoneExecuted ==
    [ order |-> << >>,       \* the callbacks executed, by their places in callbacks_
      returned |-> << >>,    \* what each callback of callbacks_ returned
      qp_vars |-> 0,         \* the problem's variables they were executed with
      best_var_vals |-> 0,   \* results_.best_var_vals they were executed with
      box_size |-> << >> ]   \* results_.box_size they were executed with

NoHistory ==
    [ qp_solves |-> 0,       \* calls of qp_solver->solve() in this solve()
      accepted |-> 0,        \* steps accepted in this solve()
      adjusts |-> 0,         \* calls of adjustPenalty() in this solve()
      event |-> "none",      \* how the latest pass of the trust-region loop of
                             \* this penalty iteration ended
      stop |-> "none",       \* the first of: "qp_error", the QP solver failed once
                             \* more after the clamp; "callback", a callback
                             \* returned false
      budget |-> "none",     \* the budget found spent at the top of an iteration
      last_accepted |-> 0,   \* the token of the latest accepted step, 0 for x0
      fail_shrinks |-> 0,    \* scalings of the box by trust_shrink_ratio made for
                             \* failed passes of this trust-region loop
      executed |-> NoneExecuted,  \* the callbacks executed in the latest pass
      at_best |-> << >> ]    \* what the problem evaluated at the best iterate:
                             \* its exact costs and constraint violations

\* The QP solver before its first init(): it holds no problem
NoQP == [matrices_at |-> -1, bounds |-> << >>, calls |-> << >>]

\* What stepSQPSolver() hands to the QP solver after convexify(): clear(),
\* then init(), the Hessian, the gradient, the constraint matrix and the
\* bounds of the problem convexified at the variables at, with box size box.
\* calls lists the calls made since the latest clear().
qpSolverInit_boundsFirst(at, box) ==
    [ matrices_at |-> at, bounds |-> box,
      calls |-> <<"init", "updateBounds", "updateHessianMatrix",
                  "updateGradient", "updateLinearConstraintsMatrix">> ]

qpSolverInit(at, box) ==
    [ matrices_at |-> at, bounds |-> box,
      calls |-> <<"init", "updateHessianMatrix", "updateGradient",
                  "updateLinearConstraintsMatrix", "updateBounds">> ]

\* qp_solver->updateBounds() with the bounds of the problem whose box is box
updateBounds(q, box) ==
    [q EXCEPT !.bounds = box, !.calls = Append(@, "updateBounds")]

\* qp_solver->solve(): the call itself, whatever it returns
qpSolve(q) == [q EXCEPT !.calls = Append(@, "solve")]

\* A solver just constructed: nothing solved yet
Init ==
    /\ pc = "idle"
    /\ params \in ParamChoices
    /\ callbacks = 0
    /\ status = "RUNNING"
    /\ results = SQPResults(0)
    /\ qp_vars = 0
    /\ qp_solver = NoQP
    /\ penalty_iteration = 0
    /\ convex_iteration = 1
    /\ qp_solver_failures = 0
    /\ hist = NoHistory
    /\ noEvaluator
    /\ noConstraint

\* callbacks_.push_back(callback), while fewer than limit are registered
pushBack(limit) ==
    /\ pc = "idle"
    /\ callbacks < limit
    /\ callbacks' = callbacks + 1
    /\ UNCHANGED <<qp_solver, pc, params, status, results, qp_vars, penalty_iteration,
                   convex_iteration, qp_solver_failures, hist>>
    /\ UNCHANGED <<evaluatorVars, constraintVars>>

\* TrustRegionSQPSolver::registerCallback
registerCallback == pushBack(MaxCallbacks)

\* TrustRegionSQPSolver::registerCallback, where the order in which several
\* callbacks are executed is followed
registerCallbackInOrder == pushBack(MaxCallbacksInOrder)

\* solve(), up to the penalty loop: status_ = RUNNING; init(qp_problem)
solve ==
    /\ pc \in {"idle", "done"}
    /\ \E n \in CntCounts : \E costs \in CostVectors, viols \in ViolVectors(n) :
          /\ results' = init(params, costs, viols)
          /\ hist' = [NoHistory EXCEPT !.at_best = evaluated(0, costs, viols)]
    /\ status' = "RUNNING"
    /\ qp_vars' = 0
    /\ penalty_iteration' = 0
    /\ pc' = "penalty_loop"
    /\ UNCHANGED <<qp_solver, params, callbacks, convex_iteration, qp_solver_failures>>
    /\ UNCHANGED <<evaluatorVars, constraintVars>>

\* A slip: the penalty loop makes one iteration more
penaltyLoopTest_inclusive(p, i) == i <= p.max_merit_coeff_increases

\* The test of the penalty loop: penalty_iteration <
\* params.max_merit_coeff_increases
penaltyLoopTest(p, i) == i < p.max_merit_coeff_increases

\* The test of the penalty loop and the head of its body
penaltyLoop ==
    /\ pc = "penalty_loop"
    /\ IF penaltyLoopTest(params, penalty_iteration)
       THEN /\ results' = [results EXCEPT !.penalty_iteration = penalty_iteration,
                                          !.convexify_iteration = 0]
            /\ convex_iteration' = 1
            /\ pc' = "convex_loop"
       ELSE /\ pc' = "finish"
            /\ UNCHANGED <<results, convex_iteration>>
    /\ UNCHANGED <<qp_solver, params, callbacks, status, qp_vars, penalty_iteration,
                   qp_solver_failures, hist>>
    /\ UNCHANGED <<evaluatorVars, constraintVars>>

\* The test of the convexification loop, the two budget tests, and
\* stepSQPSolver() up to its call of runTrustRegionLoop()
convexLoop ==
    /\ pc = "convex_loop"
    /\ \E time_is_up \in BOOLEAN :
          IF ~(convex_iteration < ConvexIterationLimit)
          THEN /\ pc' = "convex_done"
               /\ UNCHANGED <<status, results, qp_solver, qp_solver_failures,
                              hist>>
          ELSE IF time_is_up
          THEN /\ status' = "OPT_TIME_LIMIT"
               /\ pc' = "convex_done"
               /\ hist' = [hist EXCEPT !.budget = "time"]
               /\ UNCHANGED <<results, qp_solver, qp_solver_failures>>
          ELSE IF iterationLimitReached(params, results)
          THEN /\ status' = "ITERATION_LIMIT"
               /\ pc' = "convex_done"
               /\ hist' = [hist EXCEPT !.budget = "iterations"]
               /\ UNCHANGED <<results, qp_solver, qp_solver_failures>>
          ELSE /\ results' = [results EXCEPT !.convexify_iteration = @ + 1,
                                             !.trust_region_iteration = 0]
               /\ qp_solver' = qpSolverInit(qp_vars, results.box_size)
               /\ qp_solver_failures' = 0
               /\ pc' = "trust_loop"
               /\ hist' = [hist EXCEPT !.event = "none", !.fail_shrinks = 0]
               /\ UNCHANGED status
    /\ UNCHANGED <<params, callbacks, qp_vars, penalty_iteration, convex_iteration>>
    /\ UNCHANGED <<evaluatorVars, constraintVars>>

\* The test of the trust region loop
trustRegionLoop ==
    /\ pc = "trust_loop"
    /\ pc' = IF boxIsTiny(params, results) THEN "step_done" ELSE "qp"
    /\ UNCHANGED <<qp_solver, params, callbacks, status, results, qp_vars, penalty_iteration,
                   convex_iteration, qp_solver_failures, hist>>
    /\ UNCHANGED <<evaluatorVars, constraintVars>>

\* One pass of the trust region loop in which qp_solver->solve() fails
qpSolverFails ==
    /\ pc = "qp"
    /\ LET r == countIteration(results)
           f == qp_solver_failures + 1
           l == failureLadder(params, r, f)
       IN  /\ status' = "QP_SOLVER_ERROR"
           /\ qp_vars' = results.best_var_vals
           /\ qp_solver_failures' = f
           /\ results' = l.results
           /\ qp_solver' = IF l.continue
                            THEN updateBounds(qpSolve(qp_solver),
                                              l.results.box_size)
                            ELSE qpSolve(qp_solver)
           /\ pc' = IF l.continue THEN "trust_loop" ELSE "step_done"
           /\ hist' = [hist EXCEPT !.qp_solves = @ + 1,
                                   !.event = "qp_failed",
                                   !.executed = NoneExecuted,
                                   !.fail_shrinks =
                                       IF f < params.max_qp_solver_failures
                                       THEN @ + 1 ELSE @,
                                   !.stop = IF @ = "none" /\ ~l.continue
                                            THEN "qp_error" ELSE @]
    /\ UNCHANGED <<params, callbacks, penalty_iteration, convex_iteration>>
    /\ UNCHANGED <<evaluatorVars, constraintVars>>

\* What the external parts hand back on a successful QP solve: whether the
\* solution is the current iterate, the values the problem evaluates at the
\* solution, and each callback's answer.  At the current iterate the problem
\* evaluates what it evaluated there before, and its convexification, made
\* at that iterate, agrees with the exact values.
QPOutcomes ==
    { o \in [ at_x : BOOLEAN,
              costs : CostVectors,
              viols : ViolVectors(Len(results.best_constraint_violations)),
              approx_costs : CostVectors,
              approx_viols : ViolVectors(Len(results.best_constraint_violations)),
              answers : [1..callbacks -> BOOLEAN] ] :
        o.at_x => /\ o.costs = results.best_costs
                  /\ o.viols = results.best_constraint_violations
                  /\ o.approx_costs = results.best_costs
                  /\ o.approx_viols = results.best_constraint_violations }

\* results_ after a successful qp_solver->solve() with outcome o
solved(o) ==
    LET r == countIteration(results)
    IN  solveQPSucceeded(r, IF o.at_x THEN r.best_var_vals
                                      ELSE r.overall_iteration,
                         o.costs, o.viols, o.approx_costs, o.approx_viols)

\* TrustRegionSQPSolver::callCallbacks
callCallbacks(answers) == \A i \in DOMAIN answers : answers[i]

\* The callbacks the loop of callCallbacks executes from the i-th on, each
\* named by its place in callbacks_: the loop has no exit but its end
RECURSIVE executedFrom_untilFalse(_, _)
executedFrom_untilFalse(answers, i) ==
    IF i > Len(answers) THEN << >>
    ELSE IF ~answers[i] THEN <<i>>
    ELSE <<i>> \o executedFrom_untilFalse(answers, i + 1)

RECURSIVE executedFrom(_, _)
executedFrom(answers, i) ==
    IF i > Len(answers) THEN << >>
    ELSE <<i>> \o executedFrom(answers, i + 1)

\* The problem's variables when solveQPProblem() calls the callbacks: set to
\* new_var_vals for the evaluations, then back to best_var_vals
variablesAtCallbacks(r) == r.best_var_vals

\* What the callbacks of a pass with outcome o are executed with: the
\* problem, whose variables solveQPProblem() has set back to best_var_vals,
\* and results_ as solveQPProblem() has filled it
executeCallbacks(o) ==
    [ order |-> executedFrom(o.answers, 1),
      returned |-> o.answers,
      qp_vars |-> variablesAtCallbacks(solved(o)),
      best_var_vals |-> solved(o).best_var_vals,
      box_size |-> solved(o).box_size ]

\* One pass in which the QP is solved and a callback returns false
callbackStops ==
    /\ pc = "qp"
    /\ \E o \in QPOutcomes :
          /\ ~callCallbacks(o.answers)
          /\ LET f == qp_solver_failures + 1
                 l == failureLadder(params, solved(o), f)
             IN  /\ status' = "CALLBACK_STOPPED"
                 /\ qp_solver_failures' = f
                 /\ results' = l.results
                 /\ qp_solver' = IF l.continue
                                  THEN updateBounds(qpSolve(qp_solver),
                                                    l.results.box_size)
                                  ELSE qpSolve(qp_solver)
                 /\ pc' = IF l.continue THEN "trust_loop" ELSE "step_done"
                 /\ hist' = [hist EXCEPT !.qp_solves = @ + 1,
                                         !.event = "callback_stopped",
                                         !.executed = executeCallbacks(o),
                                         !.fail_shrinks =
                                             IF f < params.max_qp_solver_failures
                                             THEN @ + 1 ELSE @,
                                         !.stop = IF @ = "none"
                                                  THEN "callback" ELSE @]
    /\ qp_vars' = results.best_var_vals
    /\ UNCHANGED <<params, callbacks, penalty_iteration, convex_iteration>>
    /\ UNCHANGED <<evaluatorVars, constraintVars>>

\* One pass in which the QP is solved and the approximate improvement is small
stepConverges ==
    /\ pc = "qp"
    /\ \E o \in QPOutcomes : LET s == solved(o) IN
          /\ callCallbacks(o.answers)
          /\ improvementIsSmall(params, s)
                \/ improvementRatioIsSmall(params, s)
          /\ results' = s
          /\ hist' = [hist EXCEPT !.qp_solves = @ + 1,
                                  !.event = "small_improvement",
                                  !.executed = executeCallbacks(o)]
    /\ status' = "NLP_CONVERGED"
    /\ qp_vars' = results.best_var_vals
    /\ pc' = "step_done"
    /\ qp_solver' = qpSolve(qp_solver)
    /\ UNCHANGED <<params, callbacks, penalty_iteration, convex_iteration,
                   qp_solver_failures>>
    /\ UNCHANGED <<evaluatorVars, constraintVars>>

\* One pass in which the QP is solved and the step is rejected: shrink, go on
stepRejected ==
    /\ pc = "qp"
    /\ \E o \in QPOutcomes : LET s == solved(o) IN
          /\ callCallbacks(o.answers)
          /\ ~improvementIsSmall(params, s)
          /\ ~improvementRatioIsSmall(params, s)
          /\ stepIsRejected(params, s)
          /\ results' = scaleBoxSize(s, params.trust_shrink_ratio)
          /\ hist' = [hist EXCEPT !.qp_solves = @ + 1, !.event = "rejected",
                                  !.executed = executeCallbacks(o)]
    /\ status' = "RUNNING"
    /\ qp_vars' = results.best_var_vals
    /\ qp_solver' = updateBounds(qpSolve(qp_solver), results'.box_size)
    /\ pc' = "trust_loop"
    /\ UNCHANGED <<params, callbacks, penalty_iteration, convex_iteration,
                   qp_solver_failures>>
    /\ UNCHANGED <<evaluatorVars, constraintVars>>

\* A slip: an accepted step does not leave the trust-region loop
stepAccepted_staysInLoop ==
    /\ pc = "qp"
    /\ \E o \in QPOutcomes : LET s == solved(o) IN
          /\ callCallbacks(o.answers)
          /\ ~improvementIsSmall(params, s)
          /\ ~improvementRatioIsSmall(params, s)
          /\ ~stepIsRejected(params, s)
          /\ results' = acceptStep(params, s)
          /\ hist' = [hist EXCEPT !.qp_solves = @ + 1, !.accepted = @ + 1,
                                  !.event = "accepted",
                                  !.last_accepted = hist.qp_solves + 1,
                                  !.executed = executeCallbacks(o),
                                  !.at_best = evaluated(s.new_var_vals,
                                                        o.costs, o.viols)]
    /\ status' = "RUNNING"
    /\ qp_vars' = results'.best_var_vals
    /\ qp_solver' = updateBounds(qpSolve(qp_solver), results'.box_size)
    /\ pc' = "trust_loop"
    /\ UNCHANGED <<params, callbacks, penalty_iteration, convex_iteration,
                   qp_solver_failures>>
    /\ UNCHANGED <<evaluatorVars, constraintVars>>

\* One pass in which the QP is solved and the step is accepted
stepAccepted ==
    /\ pc = "qp"
    /\ \E o \in QPOutcomes : LET s == solved(o) IN
          /\ callCallbacks(o.answers)
          /\ ~improvementIsSmall(params, s)
          /\ ~improvementRatioIsSmall(params, s)
          /\ ~stepIsRejected(params, s)
          /\ results' = acceptStep(params, s)
          /\ hist' = [hist EXCEPT !.qp_solves = @ + 1, !.accepted = @ + 1,
                                  !.event = "accepted",
                                  !.last_accepted = hist.qp_solves + 1,
                                  !.executed = executeCallbacks(o),
                                  !.at_best = evaluated(s.new_var_vals,
                                                        o.costs, o.viols)]
    /\ status' = "RUNNING"
    /\ qp_vars' = results'.best_var_vals
    /\ qp_solver' = updateBounds(qpSolve(qp_solver), results'.box_size)
    /\ pc' = "step_done"
    /\ UNCHANGED <<params, callbacks, penalty_iteration, convex_iteration,
                   qp_solver_failures>>
    /\ UNCHANGED <<evaluatorVars, constraintVars>>

\* The end of stepSQPSolver() and the use solve() makes of its result
stepDone ==
    /\ pc = "step_done"
    /\ IF status = "NLP_CONVERGED"
       THEN /\ pc' = "convex_done"
            /\ UNCHANGED <<status, convex_iteration>>
       ELSE IF boxIsTiny(params, results)
       THEN /\ status' = "NLP_CONVERGED"
            /\ pc' = "convex_done"
            /\ UNCHANGED convex_iteration
       ELSE /\ convex_iteration' = convex_iteration + 1
            /\ pc' = "convex_loop"
            /\ UNCHANGED status
    /\ UNCHANGED <<qp_solver, params, callbacks, results, qp_vars, penalty_iteration,
                   qp_solver_failures, hist>>
    /\ UNCHANGED <<evaluatorVars, constraintVars>>

\* The rest of the penalty loop's body, after the convexification loop
convexDone ==
    /\ pc = "convex_done"
    /\ IF verifySQPSolverConvergence(params, results)
       THEN /\ status' = "NLP_CONVERGED"
            /\ pc' = "finish"
            /\ UNCHANGED <<results, penalty_iteration, hist>>
       ELSE IF status \in {"ITERATION_LIMIT", "OPT_TIME_LIMIT"}
       THEN /\ pc' = "finish"
            /\ UNCHANGED <<status, results, penalty_iteration, hist>>
       ELSE /\ status' = "RUNNING"
            /\ results' = adjustPenalty(params, results)
            /\ penalty_iteration' = penalty_iteration + 1
            /\ pc' = "penalty_loop"
            /\ hist' = [hist EXCEPT !.adjusts = @ + 1, !.event = "none"]
    /\ UNCHANGED <<qp_solver, params, callbacks, qp_vars, convex_iteration, qp_solver_failures>>
    /\ UNCHANGED <<evaluatorVars, constraintVars>>

\* A slip of the last test of solve(): the status is left as the loop left it
finalStatus_asLeft(s) == s

\* The last test of solve(): a status still RUNNING after the penalty loop
\* becomes PENALTY_ITERATION_LIMIT
finalStatus(s) == IF s = "RUNNING" THEN "PENALTY_ITERATION_LIMIT" ELSE s

\* The end of solve(), after the penalty loop
finish ==
    /\ pc = "finish"
    /\ status' = finalStatus(status)
    /\ qp_vars' = results.best_var_vals
    /\ pc' = "done"
    /\ UNCHANGED <<qp_solver, params, callbacks, results, penalty_iteration, convex_iteration,
                   qp_solver_failures, hist>>
    /\ UNCHANGED <<evaluatorVars, constraintVars>>

Next ==
    \/ registerCallback
    \/ solve
    \/ penaltyLoop
    \/ convexLoop
    \/ trustRegionLoop
    \/ qpSolverFails
    \/ callbackStops
    \/ stepConverges
    \/ stepRejected
    \/ stepAccepted
    \/ stepDone
    \/ convexDone
    \/ finish

Spec == Init /\ [][Next]_vars

\* A solver just constructed, with the parameters of the first choice
CallbackInit == Init /\ params = BaseParams

CallbackNext ==
    \/ registerCallbackInOrder
    \/ solve
    \/ penaltyLoop
    \/ convexLoop
    \/ trustRegionLoop
    \/ qpSolverFails
    \/ callbackStops
    \/ stepConverges
    \/ stepRejected
    \/ stepAccepted
    \/ stepDone
    \/ convexDone
    \/ finish

\* The solver with up to MaxCallbacksInOrder callbacks
CallbackSpec == CallbackInit /\ [][CallbackNext]_vars

TypeOK ==
    /\ pc \in {"idle", "penalty_loop", "convex_loop", "trust_loop", "qp",
               "step_done", "convex_done", "finish", "done"}
    /\ status \in Statuses
    /\ callbacks \in 0..MaxCallbacksInOrder

---------------------------------------------------------------------------
(* The claims *)

\* The convergence test of solve(), said without maxCoeff: there is no
\* constraint whose best violation reaches cnt_tolerance
ConstraintsSatisfied ==
    \A i \in DOMAIN results.best_constraint_violations :
        results.best_constraint_violations[i] < params.cnt_tolerance

\* C1: when the QP solver has failed once more after the box was clamped to
\* min_trust_box_size, solve() returns with status QP_SOLVER_ERROR.
\* solve() stops: it starts no further convexification, trust-region pass or
\* penalty iteration.
C1_QPSolverErrorIsReturned ==
    hist.stop = "qp_error" =>
        /\ pc \in {"step_done", "convex_done", "finish", "done"}
        /\ pc = "done" => status = "QP_SOLVER_ERROR"

\* C2: when a callback has returned false, solve() solves no further QP and
\* returns with status CALLBACK_STOPPED.
C2_CallbackStopIsReturned ==
    hist.stop = "callback" =>
        /\ pc # "qp"
        /\ pc = "done" => status = "CALLBACK_STOPPED"

\* A pass of the trust-region loop in which the QP was solved, every callback
\* returned true, and the approximate improvement came out small
SmallImprovementFound ==
    /\ pc = "qp"
    /\ hist'.event \notin {"qp_failed", "callback_stopped"}
    /\ \/ results'.approx_merit_improve < params.min_approx_improve
       \/ FLess(Frac(results'.approx_merit_improve, results.best_exact_merit),
                params.min_approx_improve_frac)

\* C3 as stated: once a successful QP solve has yielded a small approximate
\* improvement, solve() returns with NLP_CONVERGED, adjusting no penalty and
\* solving no other QP.
C3_SmallImprovementEndsSolve ==
    [][ (hist.event = "small_improvement" /\ pc # "done") =>
            /\ pc' \in {"convex_done", "finish", "done"}
            /\ status' = "NLP_CONVERGED"
            /\ hist'.adjusts = hist.adjusts
            /\ hist'.qp_solves = hist.qp_solves
      ]_vars

\* C3 as amended: a small approximate improvement ends the trust-region loop
\* and the convexification loop of the penalty iteration with NLP_CONVERGED and
\* no further QP solve; solve() then returns NLP_CONVERGED, penalties
\* untouched, if the constraints are satisfied, and otherwise adjusts the
\* penalties and goes on with status RUNNING.
C3_SmallImprovementEndsPenaltyIteration ==
    [][ /\ SmallImprovementFound =>
              /\ status' = "NLP_CONVERGED"
              /\ pc' = "step_done"
              /\ hist'.event = "small_improvement"
        /\ (hist.event = "small_improvement" /\ pc = "step_done") =>
              /\ pc' = "convex_done"
              /\ status' = "NLP_CONVERGED"
              /\ UNCHANGED <<results, hist>>
        /\ (hist.event = "small_improvement" /\ pc = "convex_done") =>
              IF ConstraintsSatisfied
              THEN /\ pc' = "finish"
                   /\ status' = "NLP_CONVERGED"
                   /\ UNCHANGED <<results, hist>>
              ELSE /\ pc' = "penalty_loop"
                   /\ status' = "RUNNING"
                   /\ hist'.adjusts = hist.adjusts + 1
                   /\ hist'.qp_solves = hist.qp_solves
        /\ (hist.event = "small_improvement" /\ pc = "finish"
                /\ status = "NLP_CONVERGED") =>
              /\ pc' = "done"
              /\ status' = "NLP_CONVERGED"
              /\ UNCHANGED <<results, hist>>
      ]_vars

\* A small improvement has ended the convexification loop of the second
\* penalty iteration with a constraint still violated
C3_Witness ==
    /\ hist.event = "small_improvement"
    /\ pc = "convex_done"
    /\ hist.adjusts > 0
    /\ ~ConstraintsSatisfied

\* C4: whenever the convexification loop of a penalty iteration has ended, for
\* whatever reason, with no constraints or with every best violation below
\* cnt_tolerance, solve() adjusts no penalty and returns with NLP_CONVERGED.
C4_SatisfiedConstraintsEndSolve ==
    [][ /\ (pc = "convex_done" /\ ConstraintsSatisfied) =>
              /\ pc' = "finish"
              /\ status' = "NLP_CONVERGED"
              /\ UNCHANGED <<results, hist>>
        /\ (pc = "finish" /\ status = "NLP_CONVERGED") =>
              /\ pc' = "done"
              /\ status' = "NLP_CONVERGED"
              /\ UNCHANGED <<results, hist>>
      ]_vars

\* solve() has returned with NLP_CONVERGED although its last convexification
\* loop ended on the iteration budget
C4_Witness ==
    /\ pc = "done"
    /\ status = "NLP_CONVERGED"
    /\ hist.budget = "iterations"
    /\ ConstraintsSatisfied

\* C5 as stated: a solve() whose convexification loop found the time budget
\* (the iteration budget) spent returns with OPT_TIME_LIMIT (ITERATION_LIMIT).
C5_BudgetStatusIsReturned ==
    pc = "done" =>
        /\ hist.budget = "time" => status = "OPT_TIME_LIMIT"
        /\ hist.budget = "iterations" => status = "ITERATION_LIMIT"

\* C5 as amended: when the top of a convexification iteration finds the time
\* budget or, that test passed, the iteration budget spent, solve() makes no
\* further convexify() or QP solve and returns with OPT_TIME_LIMIT
\* respectively ITERATION_LIMIT, unless the constraints are satisfied: then it
\* returns with NLP_CONVERGED.
C5_BudgetEndsSolve ==
    [][ /\ ( /\ pc = "convex_loop"
             /\ convex_iteration < ConvexIterationLimit
             /\ results.overall_iteration >= params.max_iterations ) =>
              /\ pc' = "convex_done"
              /\ status' \in {"OPT_TIME_LIMIT", "ITERATION_LIMIT"}
              /\ hist'.budget \in {"time", "iterations"}
              /\ UNCHANGED results
        /\ (hist.budget # "none" /\ pc # "done") =>
              /\ pc' \in {"finish", "done"}
              /\ UNCHANGED <<results, hist>>
              /\ status' = IF ConstraintsSatisfied THEN "NLP_CONVERGED"
                           ELSE IF hist.budget = "time" THEN "OPT_TIME_LIMIT"
                           ELSE "ITERATION_LIMIT"
      ]_vars

\* solve() has returned with ITERATION_LIMIT, a constraint still violated
C5_Witness ==
    /\ pc = "done"
    /\ hist.budget = "iterations"
    /\ status = "ITERATION_LIMIT"
    /\ ~ConstraintsSatisfied

\* The penalty loop of the solve() that returned ran all its iterations
PenaltyLoopExhausted ==
    pc = "done" /\ penalty_iteration = params.max_merit_coeff_increases

\* C6 as stated: a solve() whose penalty loop ran all its iterations returns
\* with PENALTY_ITERATION_LIMIT, the coefficients escalated
\* max_merit_coeff_increases times and max(best_constraint_violations) above
\* cnt_tolerance.
C6_PenaltyLimitAboveTolerance ==
    PenaltyLoopExhausted =>
        /\ status = "PENALTY_ITERATION_LIMIT"
        /\ hist.adjusts = params.max_merit_coeff_increases
        /\ \E i \in DOMAIN results.best_constraint_violations :
              results.best_constraint_violations[i] > params.cnt_tolerance

\* C6 as amended: such a solve() met no budget, returns with
\* PENALTY_ITERATION_LIMIT after exactly max_merit_coeff_increases calls of
\* adjustPenalty() and, when max_merit_coeff_increases >= 1, with
\* max(best_constraint_violations) >= cnt_tolerance.
\* Each call multiplies by merit_coeff_increase_ratio every coefficient
\* (uniform inflation) or those of the constraints violated by more than
\* cnt_tolerance (individual inflation).
C6_PenaltyLimitNotBelowTolerance ==
    [][ /\ (pc = "convex_done" /\ pc' = "penalty_loop") =>
              /\ hist'.adjusts = hist.adjusts + 1
              /\ \A i \in DOMAIN results.merit_error_coeffs :
                    results'.merit_error_coeffs[i] =
                        IF /\ params.inflate_constraints_individually
                           /\ results.best_constraint_violations[i]
                                  <= params.cnt_tolerance
                        THEN results.merit_error_coeffs[i]
                        ELSE results.merit_error_coeffs[i]
                                  * params.merit_coeff_increase_ratio
        /\ PenaltyLoopExhausted' =>
              /\ status' = "PENALTY_ITERATION_LIMIT"
              /\ hist'.budget = "none"
              /\ hist'.adjusts = params.max_merit_coeff_increases
              /\ params.max_merit_coeff_increases >= 1 =>
                    \E i \in DOMAIN results'.best_constraint_violations :
                        results'.best_constraint_violations[i]
                            >= params.cnt_tolerance
              /\ ~params.inflate_constraints_individually =>
                    \A i \in DOMAIN results'.merit_error_coeffs :
                        <<results'.merit_error_coeffs[i], 1>> =
                            FMul(<<params.initial_merit_error_coeff, 1>>,
                                 FPow(<<params.merit_coeff_increase_ratio, 1>>,
                                      params.max_merit_coeff_increases))
      ]_vars

\* solve() has returned with PENALTY_ITERATION_LIMIT and a violation equal to
\* cnt_tolerance
C6_Witness ==
    /\ PenaltyLoopExhausted
    /\ status = "PENALTY_ITERATION_LIMIT"
    /\ hist.adjusts = params.max_merit_coeff_increases
    /\ hist.adjusts > 0
    /\ Len(results.best_constraint_violations) > 0
    /\ MaxCoeff(results.best_constraint_violations) = params.cnt_tolerance

\* C7: when solve() returns, the problem's variable values are
\* results.best_var_vals, and these are the solution of the most recently
\* accepted step, or x0 if no step was accepted.
C7_BestIterateIsReturned ==
    pc = "done" =>
        /\ qp_vars = results.best_var_vals
        /\ results.best_var_vals = hist.last_accepted
        /\ hist.accepted = 0 => qp_vars = 0

\* solve() has returned after accepting a step and then evaluating another
\* QP solution that it did not accept
C7_Witness ==
    /\ pc = "done"
    /\ hist.accepted > 0
    /\ results.new_var_vals # results.best_var_vals

\* A pass of the trust-region loop whose QP solve succeeds and whose
\* callbacks all return true
QPSolvedAndCallbacksPassed ==
    pc = "qp" /\ hist'.event \notin {"qp_failed", "callback_stopped"}

\* C8 as stated: an accepted step strictly decreases best_exact_merit, and a
\* step with approx_merit_improve <= min_approx_improve is not accepted and
\* makes the status NLP_CONVERGED.
C8_AcceptedOrAtMostMinImprove ==
    [][ QPSolvedAndCallbacksPassed =>
          /\ hist'.event = "accepted" =>
                results'.best_exact_merit < results.best_exact_merit
          /\ results'.approx_merit_improve <= params.min_approx_improve =>
                hist'.event # "accepted" /\ status' = "NLP_CONVERGED"
      ]_vars

\* C8 as amended: with min_approx_improve > 0 and improve_ratio_threshold > 0
\* an accepted step strictly decreases best_exact_merit and has
\* approx_merit_improve >= min_approx_improve; a step with
\* approx_merit_improve < min_approx_improve is not accepted, leaves
\* best_exact_merit alone and makes the status NLP_CONVERGED.
C8_AcceptedOrBelowMinImprove ==
    [][ ( /\ QPSolvedAndCallbacksPassed
          /\ params.min_approx_improve > 0
          /\ FLess(<<0, 1>>, params.improve_ratio_threshold) ) =>
          /\ hist'.event = "accepted" =>
                /\ results'.best_exact_merit < results.best_exact_merit
                /\ results'.best_exact_merit = results'.new_exact_merit
                /\ results'.approx_merit_improve >= params.min_approx_improve
          /\ hist'.event # "accepted" =>
                results'.best_exact_merit = results.best_exact_merit
          /\ results'.approx_merit_improve < params.min_approx_improve =>
                /\ hist'.event = "small_improvement"
                /\ status' = "NLP_CONVERGED"
      ]_vars

\* A step with approx_merit_improve equal to min_approx_improve was accepted
C8_Witness ==
    /\ hist.event = "accepted"
    /\ pc = "step_done"
    /\ results.approx_merit_improve = params.min_approx_improve

\* a <= b for the fractions a and b
FLessEq(a, b) == ~IsNaN(a) /\ ~IsNaN(b) /\ ~FLess(b, a)

\* bound * trust_expand_ratio ^ k, with k the number of steps accepted so far
ExpandedBound(bound) ==
    FMul(bound, FPow(params.trust_expand_ratio, hist.accepted))

\* C9 as stated: at every QP solve of solve(),
\* min_trust_box_size <= max(box_size)
\*                    <= initial_trust_box_size * trust_expand_ratio^k.
C9_BoxWithinInitialBound ==
    pc = "qp" =>
        /\ FLessEq(params.min_trust_box_size, FMaxCoeff(results.box_size))
        /\ FLessEq(FMaxCoeff(results.box_size),
                   ExpandedBound(params.initial_trust_box_size))

\* C9 as amended: at every QP solve min_trust_box_size <= max(box_size), and
\* throughout solve() max(box_size) <= max(initial_trust_box_size,
\* min_trust_box_size / trust_shrink_ratio * 1.5) * trust_expand_ratio^k.
C9_BoxWithinPenaltyBound ==
    /\ pc = "qp" =>
          FLessEq(params.min_trust_box_size, FMaxCoeff(results.box_size))
    /\ pc # "idle" =>
          FLessEq(FMaxCoeff(results.box_size),
                  ExpandedBound(FMax(params.initial_trust_box_size,
                                     penaltyBoxFloor(params))))

\* A QP is about to be solved, after a penalty adjustment, with a box larger
\* than initial_trust_box_size * trust_expand_ratio^k
C9_Witness ==
    /\ pc = "qp"
    /\ hist.adjusts > 0
    /\ FLess(ExpandedBound(params.initial_trust_box_size),
             FMaxCoeff(results.box_size))

\* The pass of the trust-region loop that is about to solve the QP follows
\* max_qp_solver_failures failed passes of this loop
LadderExhausted ==
    pc = "qp" /\ qp_solver_failures = params.max_qp_solver_failures

\* C10 as stated: after max_qp_solver_failures failed passes of one
\* trust-region loop the box has been scaled by trust_shrink_ratio
\* max_qp_solver_failures times, and the next attempt is made with every box
\* entry clamped to min_trust_box_size.
C10_BoxShrunkForEveryFailure ==
    LadderExhausted =>
        /\ hist.fail_shrinks = params.max_qp_solver_failures
        /\ results.box_size = Constant(NumVars, params.min_trust_box_size)

\* C10 as amended: of the max_qp_solver_failures failed passes all but the
\* last scale the box by trust_shrink_ratio and the last one clamps every box
\* entry to min_trust_box_size; exactly one attempt is made with the clamped
\* box, and only a failure of that attempt makes the loop return without
\* touching the box.
C10_BoxShrunkForAllButLastFailure ==
    [][ /\ (pc = "qp" /\ hist'.event \in {"qp_failed", "callback_stopped"}) =>
              /\ qp_solver_failures' = qp_solver_failures + 1
              /\ IF qp_solver_failures' < params.max_qp_solver_failures
                 THEN /\ results'.box_size =
                            Scale(results.box_size, params.trust_shrink_ratio)
                      /\ hist'.fail_shrinks = hist.fail_shrinks + 1
                      /\ pc' = "trust_loop"
                 ELSE IF qp_solver_failures' = params.max_qp_solver_failures
                 THEN /\ results'.box_size =
                            Constant(NumVars, params.min_trust_box_size)
                      /\ hist'.fail_shrinks = hist.fail_shrinks
                      /\ pc' = "trust_loop"
                 ELSE /\ results'.box_size = results.box_size
                      /\ hist'.fail_shrinks = hist.fail_shrinks
                      /\ pc' = "step_done"
        /\ LadderExhausted' =>
              /\ hist'.fail_shrinks = params.max_qp_solver_failures - 1
              /\ results'.box_size = Constant(NumVars, params.min_trust_box_size)
        /\ LadderExhausted =>
              \/ pc' = "step_done"
              \/ pc' = "trust_loop" /\ boxIsTiny(params, results')
      ]_vars

\* A step was accepted on the attempt that followed max_qp_solver_failures
\* failures of the QP solver, the box then being other than the shrunk one
C10_Witness ==
    /\ pc = "step_done"
    /\ hist.event = "accepted"
    /\ hist.stop = "none"
    /\ qp_solver_failures = params.max_qp_solver_failures
    /\ results.box_size =
          Constant(NumVars, FMul(params.min_trust_box_size, params.trust_expand_ratio))
    /\ FLess(FMul(params.initial_trust_box_size,
                  FPow(params.trust_shrink_ratio, params.max_qp_solver_failures)),
             params.min_trust_box_size)

\* A pass of the trust-region loop whose QP solve succeeds, whose callbacks
\* pass, which passes both convergence tests and fails an improvement test
StepFailsImprovementTest ==
    /\ QPSolvedAndCallbacksPassed
    /\ ~(results'.approx_merit_improve < params.min_approx_improve)
    /\ ~FLess(Frac(results'.approx_merit_improve, results.best_exact_merit),
              params.min_approx_improve_frac)
    /\ \/ results'.exact_merit_improve < 0
       \/ FLess(results'.merit_improve_ratio, params.improve_ratio_threshold)

\* What a rejected step changes and what it leaves alone
RejectedStepFrame ==
    /\ hist'.event = "rejected"
    /\ results'.box_size = Scale(results.box_size, params.trust_shrink_ratio)
    /\ qp_solver'.bounds = results'.box_size
    /\ qp_solver'.matrices_at = qp_solver.matrices_at
    /\ results'.best_var_vals = results.best_var_vals
    /\ results'.best_costs = results.best_costs
    /\ results'.best_constraint_violations = results.best_constraint_violations
    /\ results'.best_exact_merit = results.best_exact_merit
    /\ results'.merit_error_coeffs = results.merit_error_coeffs
    /\ results'.convexify_iteration = results.convexify_iteration
    /\ qp_vars' = qp_vars
    /\ status' = "RUNNING"

\* C11 as stated: a rejected step scales the box by trust_shrink_ratio,
\* updates the solver bounds, leaves best_*, the merit coefficients and the
\* problem's variables alone, and the same convexified QP is solved again.
C11_RejectedStepSolvesAgain ==
    [][ /\ StepFailsImprovementTest => RejectedStepFrame
        /\ (pc = "trust_loop" /\ hist.event = "rejected") =>
              pc' = "qp" /\ UNCHANGED <<results, qp_solver, qp_vars>>
      ]_vars

\* C11 as amended: the same, but the same convexified QP is solved again
\* only if the shrunk box still has max(box_size) >= min_trust_box_size;
\* otherwise the trust-region loop ends without another QP solve and
\* stepSQPSolver() makes the status NLP_CONVERGED.
C11_RejectedStepSolvesAgainIfBoxAllows ==
    [][ /\ StepFailsImprovementTest => RejectedStepFrame
        /\ (pc = "trust_loop" /\ hist.event = "rejected") =>
              /\ UNCHANGED <<results, qp_solver, qp_vars, hist>>
              /\ pc' = IF FLess(FMaxCoeff(results.box_size),
                                params.min_trust_box_size)
                       THEN "step_done" ELSE "qp"
        /\ (pc = "step_done" /\ hist.event = "rejected") =>
              /\ UNCHANGED <<results, qp_solver, qp_vars, hist>>
              /\ status' = "NLP_CONVERGED"
              /\ pc' = "convex_done"
      ]_vars

\* The QP is about to be solved again after a rejected step
C11_Witness ==
    /\ pc = "qp"
    /\ hist.event = "rejected"
    /\ results.new_var_vals # results.best_var_vals
    /\ qp_solver.bounds = results.box_size
    /\ qp_solver.matrices_at = qp_vars

\* A pass of the trust-region loop whose QP solve succeeds, whose callbacks
\* pass, and which passes the convergence tests and the improvement tests
StepPassesImprovementTests ==
    /\ QPSolvedAndCallbacksPassed
    /\ ~(results'.approx_merit_improve < params.min_approx_improve)
    /\ ~FLess(Frac(results'.approx_merit_improve, results.best_exact_merit),
              params.min_approx_improve_frac)
    /\ ~(results'.exact_merit_improve < 0)
    /\ ~FLess(results'.merit_improve_ratio, params.improve_ratio_threshold)

\* C12: an accepted step sets best_var_vals, best_costs,
\* best_constraint_violations and best_exact_merit to the new values and the
\* problem's variables to the new best values, scales the box by
\* trust_expand_ratio and leaves the trust-region loop; every QP solved is
\* one convexified at the problem's current variables, the best iterate.
C12_AcceptedStepReconvexifies ==
    [][ /\ StepPassesImprovementTests =>
              /\ hist'.event = "accepted"
              /\ results'.new_var_vals = hist'.qp_solves
              /\ results'.best_var_vals = results'.new_var_vals
              /\ results'.best_costs = results'.new_costs
              /\ results'.best_constraint_violations =
                    results'.new_constraint_violations
              /\ results'.best_exact_merit = results'.new_exact_merit
              /\ qp_vars' = results'.best_var_vals
              /\ results'.box_size =
                    Scale(results.box_size, params.trust_expand_ratio)
              /\ qp_solver'.bounds = results'.box_size
              /\ pc' = "step_done"
        /\ (pc = "step_done" /\ hist.event = "accepted") =>
              pc' = "convex_loop" /\ UNCHANGED <<results, qp_vars, qp_solver>>
        /\ (pc = "convex_loop" /\ pc' = "trust_loop") =>
              /\ qp_solver'.matrices_at = qp_vars
              /\ results'.convexify_iteration = results.convexify_iteration + 1
              /\ UNCHANGED qp_vars
        /\ pc' = "qp" =>
              /\ qp_solver'.matrices_at = results'.best_var_vals
              /\ qp_solver'.matrices_at = qp_vars'
              /\ qp_solver'.bounds = results'.box_size
      ]_vars

\* A QP is about to be solved that was convexified at an accepted step
C12_Witness ==
    /\ pc = "qp"
    /\ hist.accepted > 0
    /\ qp_solver.matrices_at = hist.last_accepted
    /\ qp_solver.matrices_at # 0

\* A step of solve() that adjusts the penalties
PenaltyAdjusted == pc = "convex_done" /\ pc' = "penalty_loop"

\* C13: a penalty adjustment with inflate_constraints_individually multiplies
\* by merit_coeff_increase_ratio the coefficient of every constraint that
\* keeps the convergence test from passing (best violation not below
\* cnt_tolerance) and leaves the others alone, without it multiplies all; so
\* every adjustment increases at least one coefficient.
C13_FailedTestInflatesACoefficient ==
    [][ PenaltyAdjusted =>
          /\ \A i \in DOMAIN results.merit_error_coeffs :
                results'.merit_error_coeffs[i] =
                    IF /\ params.inflate_constraints_individually
                       /\ results.best_constraint_violations[i]
                              < params.cnt_tolerance
                    THEN results.merit_error_coeffs[i]
                    ELSE results.merit_error_coeffs[i]
                              * params.merit_coeff_increase_ratio
          /\ \E i \in DOMAIN results.merit_error_coeffs :
                results'.merit_error_coeffs[i] > results.merit_error_coeffs[i]
      ]_vars

\* C14: a penalty adjustment makes every box entry
\* max(previous entry, min_trust_box_size / trust_shrink_ratio * 1.5); the
\* box then is at least min_trust_box_size and still is after one scaling
\* by trust_shrink_ratio, so the first trust-region loop after the
\* adjustment solves a QP and, if that pass shrinks the box, solves another.
C14_PenaltyAdjustmentResetsBox ==
    [][ /\ PenaltyAdjusted =>
              /\ \A i \in DOMAIN results.box_size :
                    results'.box_size[i] =
                        FMax(results.box_size[i],
                             FMul(FDiv(params.min_trust_box_size,
                                       params.trust_shrink_ratio), <<3, 2>>))
              /\ FLessEq(params.min_trust_box_size,
                         FMaxCoeff(results'.box_size))
              /\ FLessEq(params.min_trust_box_size,
                         FMaxCoeff(Scale(results'.box_size,
                                         params.trust_shrink_ratio)))
        /\ ( /\ pc = "trust_loop"
             /\ hist.adjusts > 0
             /\ results.convexify_iteration = 1
             /\ results.trust_region_iteration <= 1 ) => pc' = "qp"
      ]_vars

\* After a penalty adjustment that raised the box, the first pass of the
\* trust-region loop shrank the box and the QP is about to be solved again
C14_Witness ==
    /\ pc = "qp"
    /\ hist.adjusts > 0
    /\ results.convexify_iteration = 1
    /\ results.trust_region_iteration = 1
    /\ hist.event \in {"rejected", "qp_failed"}
    /\ FLess(params.initial_trust_box_size, penaltyBoxFloor(params))

\* A step that takes solve() from its call to the head of the penalty loop
SolveStarted == pc \in {"idle", "done"} /\ pc' = "penalty_loop"

\* C15: at the start of every solve() the status is RUNNING, best_var_vals is
\* the x0 the problem holds, every box entry is initial_trust_box_size, every
\* merit coefficient is initial_merit_error_coeff, best_exact_merit is
\* sum(best_costs) + merit_error_coeffs . best_constraint_violations, and the
\* counters and new_* values of results_ are those of a fresh SQPResults,
\* whatever an earlier solve() left.
C15_SolveStartsAfresh ==
    [][ SolveStarted =>
          /\ status' = "RUNNING"
          /\ results'.best_var_vals = 0
          /\ qp_vars' = results'.best_var_vals
          /\ results'.best_costs \in CostVectors
          /\ \A i \in DOMAIN results'.box_size :
                results'.box_size[i] = params.initial_trust_box_size
          /\ Len(results'.box_size) = NumVars
          /\ Len(results'.merit_error_coeffs) =
                Len(results'.best_constraint_violations)
          /\ \A i \in DOMAIN results'.merit_error_coeffs :
                results'.merit_error_coeffs[i] = params.initial_merit_error_coeff
          /\ results'.best_exact_merit =
                Sum(results'.best_costs)
                  + Dot(results'.merit_error_coeffs,
                        results'.best_constraint_violations)
          /\ results'.overall_iteration = 0
          /\ results'.penalty_iteration = 0
          /\ results'.convexify_iteration = 0
          /\ results'.trust_region_iteration = 0
          /\ results'.new_var_vals = 0
          /\ results'.new_exact_merit = 0
          /\ results'.approx_merit_improve = 0
          /\ penalty_iteration' = 0
      ]_vars

\* A second solve() has started, on a problem with constraints: the QP solver
\* still holds the QP of the earlier solve(), convexified at an accepted step
C15_Witness ==
    /\ pc = "penalty_loop"
    /\ penalty_iteration = 0
    /\ results.overall_iteration = 0
    /\ qp_solver.matrices_at > 0
    /\ Len(results.best_constraint_violations) > 0
    /\ results.best_exact_merit > 0

\* A pass of the trust-region loop whose QP solve succeeds with a solution
\* equal to the current iterate, min_approx_improve being positive
SolutionIsCurrentIterate ==
    /\ pc = "qp"
    /\ hist'.event # "qp_failed"
    /\ results'.new_var_vals = results.best_var_vals
    /\ params.min_approx_improve > 0

\* What a pass that is treated as convergence changes and leaves alone
ConvergedStepFrame ==
    /\ results'.approx_merit_improve = 0
    /\ status' = "NLP_CONVERGED"
    /\ pc' = "step_done"
    /\ results'.box_size = results.box_size
    /\ qp_solver'.bounds = qp_solver.bounds
    /\ qp_solver'.matrices_at = qp_solver.matrices_at
    /\ results'.best_var_vals = results.best_var_vals
    /\ results'.best_costs = results.best_costs
    /\ results'.best_constraint_violations = results.best_constraint_violations
    /\ results'.best_exact_merit = results.best_exact_merit
    /\ qp_vars' = qp_vars

---------------------------------------------------------------------------
(* The collision evaluators of trajopt_ifopt                               *)
(* (continuous_collision_evaluators.cpp).  The robot has one joint, so a   *)
(* state is one number and the norm of a difference is its absolute value; *)
(* sub-states are fractions.  The environment is a fixed set of obstacles  *)
(* on the joint's axis: a cast between two states touches the obstacles    *)
(* that lie between them, a state touches the obstacles that lie at it.    *)

MaxPosition == 3     \* the largest joint value
MaxObjects == 3      \* CollisionCacheData objects made in one behaviour
CacheCapacity == 1   \* entries the CollisionCache holds
NumLinks == 1        \* manip_active_link_names_.size()

Positions == {0, 1, MaxPosition}
SegmentLengths == {1, 2}
FixedFlags == {<<FALSE, FALSE>>, <<TRUE, FALSE>>, <<FALSE, TRUE>>}
BoundsSizes == {1, 3}
EvaluatorKinds == {"continuous", "discrete"}

\* What the contact managers report: where the obstacle is, the link pair
\* and the shapes in contact, and the error with buffer that the gradient
\* of the contact carries at each end of the step.  Every contact is nearer
\* than margin + margin buffer, so removeInvalidContactResults drops none.
Obstacles ==
    { [ at |-> 1, link_names |-> <<1, 2>>, shape_id |-> <<0, 0>>,
        subshape_id |-> <<0, 0>>, error_with_buffer |-> <<1, 4>> ],
      [ at |-> 2, link_names |-> <<1, 2>>, shape_id |-> <<0, 0>>,
        subshape_id |-> <<0, 1>>, error_with_buffer |-> <<2, 1>> ],
      [ at |-> 2, link_names |-> <<1, 3>>, shape_id |-> <<0, 0>>,
        subshape_id |-> <<0, 0>>, error_with_buffer |-> <<6, 2>> ],
      [ at |-> MaxPosition, link_names |-> <<1, 4>>, shape_id |-> <<0, 0>>,
        subshape_id |-> <<0, 0>>, error_with_buffer |-> <<8, 8>> ] }

\* collision_coeff_data.getPairCollisionCoeff
getPairCollisionCoeff(link_names) ==
    IF link_names = <<1, 2>> THEN 10
    ELSE IF link_names = <<1, 3>> THEN 20
    ELSE 0

\* collision_coeff_data.getPairsWithZeroCoeff
getPairsWithZeroCoeff ==
    { o.link_names : o \in { c \in Obstacles : getPairCollisionCoeff(c.link_names) = 0 } }

\* The pairing function of a shape and a subshape id
cantorHash(a, b) == ((a + b) * (a + b + 1)) \div 2 + b

\* operator< of std::pair
PairLess(a, b) == a[1] < b[1] \/ (a[1] = b[1] /\ a[2] < b[2])

\* The elements of a set of pairs in the order a std::map iterates its keys
RECURSIVE InKeyOrder(_)
InKeyOrder(S) ==
    IF S = {} THEN << >>
    ELSE LET m == CHOOSE x \in S : \A y \in S : ~PairLess(y, x)
         IN  <<m>> \o InKeyOrder(S \ {m})

\* A slip: the quotient is rounded down
Ceil_roundsDown(dist, length) == dist \div length

\* std::ceil(dist / length) of lengths that are whole numbers
Ceil(dist, length) == (dist + length - 1) \div length

\* Eigen::VectorXd::LinSpaced(cnt, low, high), cnt >= 2
LinSpaced(cnt, low, high) ==
    [i \in 1..cnt |-> Frac(low * (cnt - 1) + (high - low) * (i - 1), cnt - 1)]

\* The sub-states of the step from dof_vals0 to dof_vals1: cnt states when
\* the step is longer than longest_valid_segment_length, else the two ends
subStates(dof_vals0, dof_vals1) ==
    LET dist == Abs(dof_vals1 - dof_vals0)
        length == collision_config.longest_valid_segment_length
    IN  IF dist > length
        THEN LinSpaced(Ceil(dist, length) + 1, dof_vals0, dof_vals1)
        ELSE <<Frac(dof_vals0, 1), Frac(dof_vals1, 1)>>

\* LVSContinuousCollisionEvaluator::CalcCollisionsHelper: the casts that are
\* contact-tested, one for each pair of adjacent sub-states
continuousTests(dof_vals0, dof_vals1) ==
    LET subtraj == subStates(dof_vals0, dof_vals1)
    IN  [i \in 1..(Len(subtraj) - 1) |-> <<subtraj[i], subtraj[i + 1]>>]

\* A slip: the last sub-state is not tested
discreteTests_perPair(dof_vals0, dof_vals1) ==
    LET subtraj == subStates(dof_vals0, dof_vals1)
    IN  [i \in 1..(Len(subtraj) - 1) |-> <<subtraj[i]>>]

\* LVSDiscreteCollisionEvaluator::CalcCollisionsHelper: the states that are
\* contact-tested, one for each sub-state
discreteTests(dof_vals0, dof_vals1) ==
    LET subtraj == subStates(dof_vals0, dof_vals1)
    IN  [i \in 1..Len(subtraj) |-> <<subtraj[i]>>]

\* contact_manager_->contactTest: the obstacles a cast or a state touches
contactTest(test) ==
    LET a == test[1]
        b == test[Len(test)]
    IN  { o \in Obstacles :
            \/ ~FLess(Frac(o.at, 1), a) /\ ~FLess(b, Frac(o.at, 1))
            \/ ~FLess(Frac(o.at, 1), b) /\ ~FLess(a, Frac(o.at, 1)) }

\* The error with buffer of a contact with this obstacle: the link is
\* deeper in contact at the first end of the step when the step starts at an
\* odd position
reportedError(o, tests) ==
    LET dof_vals0 == tests[1][1]
    IN  << o.error_with_buffer[1] + (IF dof_vals0[2] = 1 THEN dof_vals0[1] % 2 ELSE 0),
           o.error_with_buffer[2] >>

\* The contacts of one link pair that the tests add to contact_results_map,
\* in the order of the tests
RECURSIVE pairContacts(_, _, _)
pairContacts(tests, i, link_names) ==
    IF i > Len(tests) THEN << >>
    ELSE LET found == { o \in contactTest(tests[i]) : o.link_names = link_names }
             keys == InKeyOrder({ o.subshape_id : o \in found })
         IN  [k \in 1..Len(keys) |->
                 LET o == CHOOSE c \in found : c.subshape_id = keys[k]
                 IN  [ link_names |-> o.link_names, shape_id |-> o.shape_id,
                       subshape_id |-> o.subshape_id, test |-> i,
                       error_with_buffer |-> reportedError(o, tests) ]]
             \o pairContacts(tests, i + 1, link_names)

\* The filter of CalcCollisionsHelper: the contacts of a pair with a zero
\* coefficient are cleared
filter(tests, link_names) ==
    IF link_names \in getPairsWithZeroCoeff
    THEN << >>
    ELSE pairContacts(tests, 1, link_names)

\* contact_results_map after CalcCollisionsHelper: for each link pair in
\* contact, in key order, its contacts
contactResultsMap(tests) ==
    LET touched == UNION { contactTest(tests[i]) : i \in 1..Len(tests) }
        keys == InKeyOrder({ o.link_names : o \in touched })
    IN  [k \in 1..Len(keys) |->
            [first |-> keys[k], second |-> filter(tests, keys[k])]]

\* The shape key of a contact
shapeKey(contact) ==
    << cantorHash(contact.shape_id[1], contact.subshape_id[1]),
       cantorHash(contact.shape_id[2], contact.subshape_id[2]) >>

\* A slip: every contact opens a set of its own
shapeGrs_perContact(pair) ==
    [k \in 1..Len(pair.second) |->
        [ key |-> pair.first,
          shape_key |-> shapeKey(pair.second[k]),
          coeff |-> getPairCollisionCoeff(pair.first),
          is_continuous |-> TRUE,
          results |-> <<pair.second[k]>> ]]

\* The GradientResultsSets made of one entry of contact_results_map: one for
\* each shape key among its contacts, in key order, each holding the
\* gradient results of the contacts with that shape key
shapeGrs(pair) ==
    LET keys == InKeyOrder({ shapeKey(pair.second[i]) : i \in 1..Len(pair.second) })
    IN  [k \in 1..Len(keys) |->
            [ key |-> pair.first,
              shape_key |-> keys[k],
              coeff |-> getPairCollisionCoeff(pair.first),
              is_continuous |-> TRUE,
              results |-> SelectSeq(pair.second,
                                    LAMBDA c : shapeKey(c) = keys[k]) ]]

\* gradient_results_sets before the sort: the sets of every entry of
\* contact_results_map, entry after entry
RECURSIVE gradientResultsSets(_, _)
gradientResultsSets(map, i) ==
    IF i > Len(map) THEN << >>
    ELSE shapeGrs(map[i]) \o gradientResultsSets(map, i + 1)

\* The largest of the numbers of a non-empty sequence
Largest(s) == CHOOSE m \in { s[i] : i \in DOMAIN s } : \A i \in DOMAIN s : s[i] <= m

\* GradientResultsSet::getMaxErrorWithBufferT0
getMaxErrorWithBufferT0(grs) ==
    Largest([i \in DOMAIN grs.results |-> grs.results[i].error_with_buffer[1]])

\* GradientResultsSet::getMaxErrorWithBufferT1
getMaxErrorWithBufferT1(grs) ==
    Largest([i \in DOMAIN grs.results |-> grs.results[i].error_with_buffer[2]])

\* GradientResultsSet::getMaxErrorWithBuffer
getMaxErrorWithBuffer(grs) ==
    Largest(<<getMaxErrorWithBufferT0(grs), getMaxErrorWithBufferT1(grs)>>)

\* The key CalcCollisionData sorts by for these fixed flags
sortKey(grs, position_vars_fixed) ==
    IF ~position_vars_fixed[1] /\ ~position_vars_fixed[2]
    THEN getMaxErrorWithBuffer(grs)
    ELSE IF ~position_vars_fixed[1]
    THEN getMaxErrorWithBufferT0(grs)
    ELSE getMaxErrorWithBufferT1(grs)

\* std::sort with the comparison a.key > b.key.  The order std::sort gives
\* to sets with equal keys is fixed by the library; here they keep their
\* order.
RECURSIVE sortByKey(_, _)
sortByKey(sets, position_vars_fixed) ==
    IF sets = << >> THEN << >>
    ELSE LET rest == sortByKey(Tail(sets), position_vars_fixed)
             k == sortKey(Head(sets), position_vars_fixed)
             before == SelectSeq(rest, LAMBDA g : sortKey(g, position_vars_fixed) > k)
             after == SelectSeq(rest, LAMBDA g : sortKey(g, position_vars_fixed) <= k)
         IN  before \o <<Head(sets)>> \o after

\* CalcCollisionData on a cache miss, from the tests CalcCollisionsHelper
\* makes to the data that is put into the cache
computeData(tests, position_vars_fixed, bounds_size) ==
    LET map == contactResultsMap(tests)
        sets == gradientResultsSets(map, 1)
    IN  [ contact_results_map |-> map,
          gradient_results_sets |->
              IF Len(sets) > bounds_size
              THEN sortByKey(sets, position_vars_fixed)
              ELSE sets ]

\* getHash(*collision_config_, dof_vals0, dof_vals1); the two evaluators have
\* configurations of their own
getHash(evaluator, dof_vals0, dof_vals1) == <<evaluator, dof_vals0, dof_vals1>>

\* collision_cache_->get(key): the entries with that key, none or one
get(key) == { e \in collision_cache : e.key = key }

\* collision_cache_->put(key, data): the caches that can result; a full
\* cache gives up one of its entries
put(entry) ==
    IF Cardinality(collision_cache) < CacheCapacity
    THEN { collision_cache \cup {entry} }
    ELSE { (collision_cache \ {victim}) \cup {entry} : victim \in collision_cache }

\* A slip: the data of a cache miss is returned and not put into the cache
CalcCollisionData_withoutPut(evaluator, tests, dof_vals0, dof_vals1, position_vars_fixed, bounds_size) ==
    LET key == getHash(evaluator, dof_vals0, dof_vals1)
        call == [ evaluator |-> evaluator,
                  dof_vals0 |-> dof_vals0, dof_vals1 |-> dof_vals1,
                  position_vars_fixed |-> position_vars_fixed,
                  bounds_size |-> bounds_size ]
    IN  IF get(key) # {}
        THEN LET it == CHOOSE e \in get(key) : TRUE
             IN  /\ reply' = call @@ [id |-> it.id, hit |-> TRUE, data |-> it.data]
                 /\ contact_manager' = NoContactTests
                 /\ UNCHANGED <<collision_cache, objects>>
        ELSE LET data == computeData(tests, position_vars_fixed, bounds_size)
                 id == objects + 1
             IN  /\ objects < MaxObjects
                 /\ objects' = id
                 /\ contact_manager' = [tests |-> tests,
                                        transforms |-> NumLinks * Len(tests)]
                 /\ collision_cache' = collision_cache
                 /\ reply' = call @@ [id |-> id, hit |-> FALSE, data |-> data]

\* CalcCollisionData of either evaluator, whose CalcCollisionsHelper makes
\* these tests
CalcCollisionData(evaluator, tests, dof_vals0, dof_vals1, position_vars_fixed, bounds_size) ==
    LET key == getHash(evaluator, dof_vals0, dof_vals1)
        call == [ evaluator |-> evaluator,
                  dof_vals0 |-> dof_vals0, dof_vals1 |-> dof_vals1,
                  position_vars_fixed |-> position_vars_fixed,
                  bounds_size |-> bounds_size ]
    IN  IF get(key) # {}
        THEN LET it == CHOOSE e \in get(key) : TRUE
             IN  /\ reply' = call @@ [id |-> it.id, hit |-> TRUE, data |-> it.data]
                 /\ contact_manager' = NoContactTests
                 /\ UNCHANGED <<collision_cache, objects>>
        ELSE LET data == computeData(tests, position_vars_fixed, bounds_size)
                 id == objects + 1
             IN  /\ objects < MaxObjects
                 /\ objects' = id
                 /\ contact_manager' = [tests |-> tests,
                                        transforms |-> NumLinks * Len(tests)]
                 /\ collision_cache' \in put([key |-> key, id |-> id, data |-> data])
                 /\ reply' = call @@ [id |-> id, hit |-> FALSE, data |-> data]

\* The evaluators as built: their configuration, an empty cache
EvaluatorInit ==
    /\ collision_config \in
          [longest_valid_segment_length : SegmentLengths,
           collision_margin_buffer : {1}]
    /\ collision_cache = {}
    /\ objects = 0
    /\ contact_manager = NoContactTests
    /\ reply = NoReply
    /\ pc = "idle"
    /\ params = BaseParams
    /\ callbacks = 0
    /\ status = "RUNNING"
    /\ results = SQPResults(0)
    /\ qp_vars = 0
    /\ qp_solver = NoQP
    /\ penalty_iteration = 0
    /\ convex_iteration = 1
    /\ qp_solver_failures = 0
    /\ hist = NoHistory
    /\ noConstraint

\* LVSContinuousCollisionEvaluator::CalcCollisionData
continuousCalcCollisionData ==
    /\ \E dof_vals0 \in Positions, dof_vals1 \in Positions,
          position_vars_fixed \in FixedFlags, bounds_size \in BoundsSizes :
          CalcCollisionData("continuous", continuousTests(dof_vals0, dof_vals1),
                            dof_vals0, dof_vals1, position_vars_fixed, bounds_size)
    /\ UNCHANGED <<collision_config, solverVars, constraintVars>>

\* LVSDiscreteCollisionEvaluator::CalcCollisionData
discreteCalcCollisionData ==
    /\ \E dof_vals0 \in Positions, dof_vals1 \in Positions,
          position_vars_fixed \in FixedFlags, bounds_size \in BoundsSizes :
          CalcCollisionData("discrete", discreteTests(dof_vals0, dof_vals1),
                            dof_vals0, dof_vals1, position_vars_fixed, bounds_size)
    /\ UNCHANGED <<collision_config, solverVars, constraintVars>>

EvaluatorNext ==
    \/ continuousCalcCollisionData
    \/ discreteCalcCollisionData

EvaluatorSpec == EvaluatorInit /\ [][EvaluatorNext]_vars

EvaluatorTypeOK ==
    /\ Cardinality(collision_cache) <= CacheCapacity
    /\ objects \in 0..MaxObjects
    /\ reply.id \in 0..objects

\* The call that was answered last
LastCall(r) == <<r.evaluator, r.dof_vals0, r.dof_vals1>>

\* The cache entry a call of this evaluator with these joint values finds
Cached(evaluator, dof_vals0, dof_vals1) ==
    { e \in collision_cache : e.key = <<evaluator, dof_vals0, dof_vals1>> }

\* C17: a call of CalcCollisionData whose configuration and (x0, x1) are those
\* of an earlier call, whose entry no eviction has removed, returns the very
\* object of that call and makes no contactTest and no
\* setCollisionObjectsTransform; the call that directly follows a call with
\* the same configuration and (x0, x1) is such a call; and every cache miss
\* ends with its data in the cache under the lookup key.
C17_SecondCallReturnsSameObject ==
    [][ /\ \A e \in Cached(reply'.evaluator, reply'.dof_vals0, reply'.dof_vals1) :
              /\ reply'.hit
              /\ reply'.id = e.id
              /\ reply'.data = e.data
              /\ contact_manager' = NoContactTests
        /\ (reply.id > 0 /\ LastCall(reply') = LastCall(reply)) =>
              /\ reply'.id = reply.id
              /\ contact_manager' = NoContactTests
        /\ ~reply'.hit =>
              [ key |-> getHash(reply'.evaluator, reply'.dof_vals0, reply'.dof_vals1),
                id |-> reply'.id, data |-> reply'.data ] \in collision_cache'
      ]_vars

\* A second call found the data of the first, which holds sets, after an
\* earlier entry was evicted
C17_Witness ==
    /\ reply.hit
    /\ reply.id = 2
    /\ reply.data.gradient_results_sets # << >>
    /\ contact_manager = NoContactTests

\* The tests CalcCollisionsHelper of the evaluator of a call makes
testsOf(call) ==
    IF call.evaluator = "continuous"
    THEN continuousTests(call.dof_vals0, call.dof_vals1)
    ELSE discreteTests(call.dof_vals0, call.dof_vals1)

\* C18: a cache hit returns the GradientResultsSets, same sets in the same
\* order, that a computation of that call with its own x0, x1, fixed flags
\* and bounds_size returns, whatever calls went before on the shared cache.
C18_HitEqualsRecomputation ==
    reply.hit =>
        reply.data.gradient_results_sets =
            computeData(testsOf(reply), reply.position_vars_fixed,
                        reply.bounds_size).gradient_results_sets

\* The sets are in non-increasing order of the key these fixed flags select
RECURSIVE IsOrdered(_, _)
IsOrdered(sets, position_vars_fixed) ==
    \/ Len(sets) < 2
    \/ /\ sortKey(sets[1], position_vars_fixed) >= sortKey(sets[2], position_vars_fixed)
       /\ IsOrdered(Tail(sets), position_vars_fixed)

\* C19: every result of CalcCollisionData(x0, x1, fixed, bounds_size) that
\* holds more than bounds_size sets has them in non-increasing order of the
\* key the fixed flags of that call select.
C19_ResultIsOrdered ==
    (reply.id > 0 /\ Len(reply.data.gradient_results_sets) > reply.bounds_size) =>
        IsOrdered(reply.data.gradient_results_sets, reply.position_vars_fixed)

\* state is the i-th of cnt states that divide the step from dof_vals0 to
\* dof_vals1 into equal parts
IsInterpolated(state, i, cnt, dof_vals0, dof_vals1) ==
    state[1] * (cnt - 1) =
        state[2] * (dof_vals0 * (cnt - 1) + (dof_vals1 - dof_vals0) * (i - 1))

\* The last call was answered by the continuous evaluator from the contact
\* manager
ContinuousMiss == reply.evaluator = "continuous" /\ ~reply.hit

\* C20: with d = ||x1 - x0|| and L = longest_valid_segment_length, the
\* continuous evaluator contact-tests exactly the one cast (x0, x1) when
\* d < L; when d >= L it tests ceil(d/L) casts, one for each pair of adjacent
\* states of the ceil(d/L)+1 states that interpolate linearly from x0 to x1.
C20_OneCastPerAdjacentPair ==
    ContinuousMiss =>
        LET d == Abs(reply.dof_vals1 - reply.dof_vals0)
            L == collision_config.longest_valid_segment_length
            n == ((d + L - 1) \div L) + 1
            tests == contact_manager.tests
        IN  /\ d < L =>
                tests = << <<Frac(reply.dof_vals0, 1), Frac(reply.dof_vals1, 1)>> >>
            /\ d >= L =>
                /\ Len(tests) = n - 1
                /\ \A i \in 1..(n - 1) :
                      /\ Len(tests[i]) = 2
                      /\ IsInterpolated(tests[i][1], i, n,
                                        reply.dof_vals0, reply.dof_vals1)
                      /\ IsInterpolated(tests[i][2], i + 1, n,
                                        reply.dof_vals0, reply.dof_vals1)

\* A step longer than L, and no multiple of it, was divided into two casts
C20_Witness ==
    /\ ContinuousMiss
    /\ Abs(reply.dof_vals1 - reply.dof_vals0) = 3
    /\ collision_config.longest_valid_segment_length = 2
    /\ Len(contact_manager.tests) = 2

\* The sets a cache miss returns are sorted when they are more than
\* bounds_size
MissIsOrdered ==
    (~reply.hit /\ Len(reply.data.gradient_results_sets) > reply.bounds_size) =>
        IsOrdered(reply.data.gradient_results_sets, reply.position_vars_fixed)

\* The last call was answered by the discrete evaluator from the contact
\* manager
DiscreteMiss == reply.evaluator = "discrete" /\ ~reply.hit

\* The larger of two numbers
Max2(a, b) == IF a >= b THEN a ELSE b

\* C21: the discrete evaluator samples max(2, ceil(d/L)+1) sub-states for
\* every d >= 0, the first at x0 and the last at x1, linearly interpolated,
\* and makes one contactTest for each of them.
C21_OneTestPerSubState ==
    DiscreteMiss =>
        LET d == Abs(reply.dof_vals1 - reply.dof_vals0)
            L == collision_config.longest_valid_segment_length
            n == Max2(2, ((d + L - 1) \div L) + 1)
            tests == contact_manager.tests
        IN  /\ Len(tests) = n
            /\ tests[1] = <<Frac(reply.dof_vals0, 1)>>
            /\ tests[n] = <<Frac(reply.dof_vals1, 1)>>
            /\ \A i \in 1..n :
                  /\ Len(tests[i]) = 1
                  /\ IsInterpolated(tests[i][1], i, n,
                                    reply.dof_vals0, reply.dof_vals1)

\* A step of length 3 with L = 2 was sampled at three states
C21_Witness ==
    /\ DiscreteMiss
    /\ Abs(reply.dof_vals1 - reply.dof_vals0) = 3
    /\ collision_config.longest_valid_segment_length = 2
    /\ Len(contact_manager.tests) = 3

\* A step of length zero was sampled at two states
ZeroStepSampledTwice ==
    /\ DiscreteMiss
    /\ reply.dof_vals1 = reply.dof_vals0
    /\ Len(contact_manager.tests) = 2

\* The number of places of the sets where this contact is a result
Places(sets, contact) ==
    Cardinality({ p \in { <<k, j>> : k \in 1..Len(sets), j \in 1..3 * MaxPosition } :
                    /\ p[2] <= Len(sets[p[1]].results)
                    /\ sets[p[1]].results[p[2]] = contact })

\* C23: in the data of every cache miss the GradientResultsSets partition the
\* retained contacts: every contact of contact_results_map is a result of
\* exactly one set, once; no two sets have the same link pair and shape key;
\* every result of a set has the link pair and the shape key of the set; and
\* the coeff of each set is the collision coefficient of its link pair.
C23_SetsPartitionContacts ==
    (reply.id > 0 /\ ~reply.hit) =>
        LET map == reply.data.contact_results_map
            sets == reply.data.gradient_results_sets
        IN  /\ \A k \in 1..Len(map) : \A j \in 1..Len(map[k].second) :
                  Places(sets, map[k].second[j]) = 1
            /\ \A a, b \in 1..Len(sets) :
                  (sets[a].key = sets[b].key /\ sets[a].shape_key = sets[b].shape_key)
                      => a = b
            /\ \A a \in 1..Len(sets) :
                  /\ sets[a].coeff = getPairCollisionCoeff(sets[a].key)
                  /\ sets[a].results # << >>
                  /\ \A j \in 1..Len(sets[a].results) :
                        /\ sets[a].results[j].link_names = sets[a].key
                        /\ shapeKey(sets[a].results[j]) = sets[a].shape_key
                        /\ \E k \in 1..Len(map) : \E i \in 1..Len(map[k].second) :
                              map[k].second[i] = sets[a].results[j]

\* A miss returned three sets, one of them with the contacts of two casts
C23_Witness ==
    /\ reply.id > 0
    /\ ~reply.hit
    /\ Len(reply.data.gradient_results_sets) = 3
    /\ \E a \in 1..3 : Len(reply.data.gradient_results_sets[a].results) = 2

---------------------------------------------------------------------------
(* The numerical continuous collision constraint                           *)
(* (continuous_collision_numerical_constraint.cpp).  It has one joint      *)
(* (n_dof_ = 1) unless the constructor is given variable sets without      *)
(* rows; its evaluator is the continuous one.  Joint values are counted in *)
(* steps of delta, the step of the forward difference.                     *)

MaxNumCnt == 3           \* the largest max_num_cnt a constraint is built with

delta == 1               \* const double delta, in steps of the joint values

\* ifopt::BoundSmallerZero
BoundSmallerZero == [lower |-> <<-1, 0>>, upper |-> <<0, 1>>]

\* The error of a gradient result at the two ends of the step: the error
\* with buffer less the margin buffer
errorOf(result) ==
    << result.error_with_buffer[1] - collision_config.collision_margin_buffer,
       result.error_with_buffer[2] - collision_config.collision_margin_buffer >>

\* GradientResultsSet::getMaxErrorT0
getMaxErrorT0(grs) ==
    Largest([i \in DOMAIN grs.results |-> errorOf(grs.results[i])[1]])

\* GradientResultsSet::getMaxErrorT1
getMaxErrorT1(grs) ==
    Largest([i \in DOMAIN grs.results |-> errorOf(grs.results[i])[2]])

\* GradientResultsSet::getMaxError
getMaxError(grs) == Largest(<<getMaxErrorT0(grs), getMaxErrorT1(grs)>>)

\* A slip: the variants for a fixed x0 and a fixed x1 are exchanged
maxErrorVariant_exchanged(grs, vars0_fixed, vars1_fixed) ==
    IF ~vars0_fixed /\ ~vars1_fixed THEN getMaxError(grs)
    ELSE IF ~vars0_fixed THEN getMaxErrorT1(grs)
    ELSE getMaxErrorT0(grs)

\* The error GetValues and FillJacobianBlock read from a set for these fixed
\* flags
maxErrorVariant(grs, vars0_fixed, vars1_fixed) ==
    IF ~vars0_fixed /\ ~vars1_fixed THEN getMaxError(grs)
    ELSE IF ~vars0_fixed THEN getMaxErrorT0(grs)
    ELSE getMaxErrorT1(grs)

\* collision_cache_->get(key) on a cache
cacheGet(cache, key) == { e \in cache : e.key = key }

\* collision_cache_->put(key, data) on a cache: the caches that can result
cachePut(cache, entry) ==
    IF Cardinality(cache) < CacheCapacity
    THEN { cache \cup {entry} }
    ELSE { (cache \ {victim}) \cup {entry} : victim \in cache }

\* collision_evaluator_->CalcCollisionData(joint_vals0, joint_vals1,
\* vars0_fixed_, vars1_fixed_, bounds_.size()) with this cache and this many
\* objects made: the data returned, with the cache and the number of
\* objects it leaves
calcCollisionData(cache, made, dof_vals0, dof_vals1, position_vars_fixed, bounds_size) ==
    LET key == getHash("continuous", dof_vals0, dof_vals1)
        tests == continuousTests(dof_vals0, dof_vals1)
        call == [ evaluator |-> "continuous",
                  dof_vals0 |-> dof_vals0, dof_vals1 |-> dof_vals1,
                  position_vars_fixed |-> position_vars_fixed,
                  bounds_size |-> bounds_size ]
    IN  IF cacheGet(cache, key) # {}
        THEN LET it == CHOOSE e \in cacheGet(cache, key) : TRUE
             IN  { [ reply |-> call @@ [id |-> it.id, hit |-> TRUE, data |-> it.data],
                     contact_manager |-> NoContactTests,
                     cache |-> cache, objects |-> made ] }
        ELSE LET data == computeData(tests, position_vars_fixed, bounds_size)
                 id == made + 1
             IN  { [ reply |-> call @@ [id |-> id, hit |-> FALSE, data |-> data],
                     contact_manager |-> [tests |-> tests,
                                          transforms |-> NumLinks * Len(tests)],
                     cache |-> c, objects |-> id ] :
                   c \in cachePut(cache, [key |-> key, id |-> id, data |-> data]) }

\* The shared pointers the constructor can be given: null, or a JointPosition
\* with this many rows
PositionVar == { [null |-> TRUE, rows |-> 0],
                 [null |-> FALSE, rows |-> 0],
                 [null |-> FALSE, rows |-> 1] }

\* The max_num_cnt the constructor can be given
MaxNumCnts == {0, 1, MaxNumCnt}

\* The std::runtime_error messages of the constructor
ContainsNullptr == "position_vars contains a nullptr!"
IsEmpty == "position_vars[0] is empty!"
NotSameSize == "position_vars are not the same size!"
BothFixed == "position_vars are both fixed!"
NotGreaterThanZero == "max_num_cnt must be greater than zero!"

\* The constructor threw
Thrown(what) == [call |-> "constructor", thrown |-> what, signal |-> "none"]

\* The constructor returned
Constructed == [call |-> "constructor", thrown |-> "none", signal |-> "none"]

\* The process was ended by a signal
Signalled == [call |-> "constructor", thrown |-> "none", signal |-> "SIGSEGV"]

\* What a call through a null shared pointer can do: end the process, or
\* read some value and go on to any of the ends of the constructor; what
\* the object holds afterwards is not followed
Undefined ==
    { Signalled, Constructed, Thrown(IsEmpty), Thrown(NotSameSize),
      Thrown(BothFixed), Thrown(NotGreaterThanZero) }

\* A slip: the zeros are listed for the first row only
tripletList_firstRow(fixed_sparsity, bounds_size, n_dof) ==
    IF fixed_sparsity
    THEN { <<0, j>> : j \in 0..(n_dof - 1) }
    ELSE {}

\* triplet_list_ as the constructor leaves it: a zero for every row and
\* joint when the sparsity is fixed
tripletList(fixed_sparsity, bounds_size, n_dof) ==
    IF fixed_sparsity
    THEN { <<i, j>> : i \in 0..(bounds_size - 1), j \in 0..(n_dof - 1) }
    ELSE {}

\* A slip: zero is let through
maxNumCntTest_negative(max_num_cnt) == max_num_cnt < 0

\* The test of the constructor's last throw
maxNumCntTest(max_num_cnt) == max_num_cnt < 1

\* The test of the constructor's first throw
nullptrTest(position_vars) ==
    position_vars[1].null /\ position_vars[2].null

\* ContinuousCollisionNumericalConstraint::ContinuousCollisionNumericalConstraint:
\* how the call ends, and the object when it is constructed (max_num_cnt and
\* fixed_sparsity are the arguments it was given, kept for reference)
construct ==
    /\ ~constraint.built
    /\ \E position_vars \in PositionVar \X PositionVar,
          vars0_fixed \in BOOLEAN, vars1_fixed \in BOOLEAN,
          max_num_cnt \in MaxNumCnts, fixed_sparsity \in BOOLEAN :
          LET given == [ position_vars |-> position_vars,
                         vars0_fixed |-> vars0_fixed, vars1_fixed |-> vars1_fixed,
                         max_num_cnt |-> max_num_cnt,
                         fixed_sparsity |-> fixed_sparsity ]
              n_dof == position_vars[1].rows
          IN  IF nullptrTest(position_vars)
              THEN /\ outcome' = Thrown(ContainsNullptr) @@ given
                   /\ UNCHANGED constraint
              ELSE IF position_vars[1].null
              THEN /\ \E end \in Undefined : outcome' = end @@ given
                   /\ UNCHANGED constraint
              ELSE IF ~(n_dof > 0)
              THEN /\ outcome' = Thrown(IsEmpty) @@ given
                   /\ UNCHANGED constraint
              ELSE IF position_vars[2].null
              THEN /\ \E end \in Undefined : outcome' = end @@ given
                   /\ UNCHANGED constraint
              ELSE IF position_vars[1].rows # position_vars[2].rows
              THEN /\ outcome' = Thrown(NotSameSize) @@ given
                   /\ UNCHANGED constraint
              ELSE IF vars0_fixed /\ vars1_fixed
              THEN /\ outcome' = Thrown(BothFixed) @@ given
                   /\ UNCHANGED constraint
              ELSE IF maxNumCntTest(max_num_cnt)
              THEN /\ outcome' = Thrown(NotGreaterThanZero) @@ given
                   /\ UNCHANGED constraint
              ELSE /\ outcome' = Constructed @@ given
                   /\ constraint' =
                         [ built |-> TRUE,
                           vars0_fixed |-> vars0_fixed,
                           vars1_fixed |-> vars1_fixed,
                           n_dof |-> n_dof,
                           max_num_cnt |-> max_num_cnt,
                           fixed_sparsity |-> fixed_sparsity,
                           bounds |-> [i \in 1..max_num_cnt |-> BoundSmallerZero],
                           triplet_list |->
                               tripletList(fixed_sparsity, max_num_cnt, n_dof) ]
    /\ UNCHANGED <<joint_vals, evaluatorVars, solverVars>>

\* The variable sets take new values (ifopt::Composite::SetVariables)
setVariables ==
    /\ constraint.built
    /\ \E joint_vals0 \in Positions, joint_vals1 \in Positions :
          joint_vals' = <<joint_vals0, joint_vals1>>
    /\ joint_vals' # joint_vals
    /\ UNCHANGED <<constraint, outcome, evaluatorVars, solverVars>>

\* The value of slot i of GetValues for these sets
slotValue(sets, i, cnt, vars0_fixed, vars1_fixed) ==
    IF i <= cnt
    THEN sets[i].coeff * maxErrorVariant(sets[i], vars0_fixed, vars1_fixed)
    ELSE -collision_config.collision_margin_buffer

\* A slip: the slots beyond the sets are left at zero
values_zeroFilled(sets, bounds_size, vars0_fixed, vars1_fixed) ==
    LET cnt == IF bounds_size <= Len(sets) THEN bounds_size ELSE Len(sets)
    IN  [i \in 1..bounds_size |->
            IF i <= cnt
            THEN sets[i].coeff * maxErrorVariant(sets[i], vars0_fixed, vars1_fixed)
            ELSE 0]

\* The vector GetValues returns for these gradient_results_sets
values(sets, bounds_size, vars0_fixed, vars1_fixed) ==
    LET cnt == IF bounds_size <= Len(sets) THEN bounds_size ELSE Len(sets)
    IN  [i \in 1..bounds_size |-> slotValue(sets, i, cnt, vars0_fixed, vars1_fixed)]

\* ContinuousCollisionNumericalConstraint::GetValues
GetValues ==
    /\ constraint.built
    /\ \E r \in calcCollisionData(collision_cache, objects,
                                  joint_vals[1], joint_vals[2],
                                  <<constraint.vars0_fixed, constraint.vars1_fixed>>,
                                  Len(constraint.bounds)) :
          /\ r.objects <= MaxObjects
          /\ collision_cache' = r.cache
          /\ objects' = r.objects
          /\ reply' = r.reply
          /\ contact_manager' = r.contact_manager
          /\ outcome' = [ call |-> "GetValues",
                          data |-> r.reply.data,
                          values |-> values(r.reply.data.gradient_results_sets,
                                            Len(constraint.bounds),
                                            constraint.vars0_fixed,
                                            constraint.vars1_fixed) ]
    /\ UNCHANGED <<constraint, joint_vals, collision_config, solverVars>>

\* The names FillJacobianBlock can be called with: those of the two variable
\* sets of the constraint and that of another set
VarSets == {"position_vars[0]", "position_vars[1]", "other"}

\* A slip: every variable set is taken for one of the constraint's
usesVarSet_any(var_set) == var_set \in VarSets

\* The first test of FillJacobianBlock: var_set is the name of one of the
\* two position variables
usesVarSet(var_set) == var_set \in {"position_vars[0]", "position_vars[1]"}

\* jac_block.setFromTriplets(triplet_list_): a zero stored at every entry of
\* the list.  A block is a function from its stored entries to their values.
setFromTriplets(triplet_list) == [e \in triplet_list |-> <<0, 1>>]

\* std::find_if over the perturbed sets: the places of the sets with the key
\* and the shape key of the baseline set
matches(sets_delta, baseline) ==
    { k \in 1..Len(sets_delta) :
        /\ sets_delta[k].key = baseline.key
        /\ sets_delta[k].shape_key = baseline.shape_key }

\* A slip: the perturbed set is taken from the place of the baseline set
distDelta_samePlace(sets, sets_delta, i, vars0_fixed, vars1_fixed) ==
    IF i <= Len(sets_delta)
    THEN sets_delta[i].coeff
            * (maxErrorVariant(sets_delta[i], vars0_fixed, vars1_fixed)
               - maxErrorVariant(sets[i], vars0_fixed, vars1_fixed))
    ELSE sets[i].coeff
            * ((-1 * collision_config.collision_margin_buffer)
               - maxErrorVariant(sets[i], vars0_fixed, vars1_fixed))

\* dist_delta of row i: the baseline set i against the perturbed sets
distDelta(sets, sets_delta, i, vars0_fixed, vars1_fixed) ==
    LET baseline == sets[i]
        found == matches(sets_delta, baseline)
    IN  IF found # {}
        THEN LET it == sets_delta[CHOOSE k \in found : \A m \in found : k <= m]
             IN  it.coeff * (maxErrorVariant(it, vars0_fixed, vars1_fixed)
                             - maxErrorVariant(baseline, vars0_fixed, vars1_fixed))
        ELSE baseline.coeff
                * ((-1 * collision_config.collision_margin_buffer)
                   - maxErrorVariant(baseline, vars0_fixed, vars1_fixed))

\* jac_block after the loops of FillJacobianBlock over joint 0 and the first
\* cnt baseline sets
fillBlock(jac_block, sets, sets_delta, cnt, vars0_fixed, vars1_fixed) ==
    [e \in DOMAIN jac_block \cup { <<i, 0>> : i \in 0..(cnt - 1) } |->
        IF e[2] = 0 /\ e[1] < cnt
        THEN Frac(distDelta(sets, sets_delta, e[1] + 1, vars0_fixed, vars1_fixed),
                  delta)
        ELSE jac_block[e]]

\* ContinuousCollisionNumericalConstraint::FillJacobianBlock(var_set,
\* jac_block) with a block that has no stored entry
FillJacobianBlock ==
    /\ constraint.built
    /\ \E var_set \in VarSets :
          LET fixed == <<constraint.vars0_fixed, constraint.vars1_fixed>>
              bounds_size == Len(constraint.bounds)
              zeros == setFromTriplets(constraint.triplet_list)
              done(block, base, pert) ==
                  outcome' = [ call |-> "FillJacobianBlock", var_set |-> var_set,
                               baseline |-> base, perturbed |-> pert,
                               jac_block |-> block ]
          IN  IF ~usesVarSet(var_set)
              THEN /\ done(<< >>, CollisionCacheData, CollisionCacheData)
                   /\ UNCHANGED evaluatorVars
              ELSE \E r \in calcCollisionData(collision_cache, objects,
                                              joint_vals[1], joint_vals[2],
                                              fixed, bounds_size) :
                     LET sets == r.reply.data.gradient_results_sets
                         cnt == IF bounds_size <= Len(sets)
                                THEN bounds_size ELSE Len(sets)
                     IN  IF sets = << >>
                         THEN /\ r.objects <= MaxObjects
                              /\ done(zeros, r.reply.data, CollisionCacheData)
                              /\ collision_cache' = r.cache
                              /\ objects' = r.objects
                              /\ reply' = r.reply
                              /\ contact_manager' = r.contact_manager
                              /\ UNCHANGED collision_config
                         ELSE \E d \in calcCollisionData(r.cache, r.objects,
                                                         joint_vals[1] + delta,
                                                         joint_vals[2],
                                                         fixed, bounds_size) :
                                /\ d.objects <= MaxObjects
                                /\ done(fillBlock(zeros, sets,
                                            d.reply.data.gradient_results_sets,
                                            cnt, fixed[1], fixed[2]),
                                        r.reply.data, d.reply.data)
                                /\ collision_cache' = d.cache
                                /\ objects' = d.objects
                                /\ reply' = d.reply
                                /\ contact_manager' = d.contact_manager
                                /\ UNCHANGED collision_config
    /\ UNCHANGED <<constraint, joint_vals, solverVars>>

\* The evaluator and the problem as built, no constraint yet
ConstraintInit == EvaluatorInit

ConstraintNext ==
    \/ construct
    \/ setVariables
    \/ GetValues
    \/ FillJacobianBlock

ConstraintSpec == ConstraintInit /\ [][ConstraintNext]_vars

ConstraintTypeOK ==
    /\ constraint.built => Len(constraint.bounds) = constraint.max_num_cnt
    /\ objects \in 0..MaxObjects

\* The obstacles the tests of the latest call touched whose contacts the
\* filter keeps
Retained ==
    { o \in UNION { contactTest(contact_manager.tests[i]) :
                      i \in 1..Len(contact_manager.tests) } :
        o.link_names \notin getPairsWithZeroCoeff }

NoSetsLeaveZeros ==
    /\ outcome.call = "FillJacobianBlock"
    /\ outcome.var_set # "other"
    /\ outcome.baseline.gradient_results_sets = << >>
    /\ DOMAIN outcome.jac_block # {}

\* The smaller of two numbers
Min2(a, b) == IF a <= b THEN a ELSE b

SlotsBeyondTheSets ==
    /\ outcome.call = "GetValues"
    /\ outcome.data.gradient_results_sets # << >>
    /\ Len(outcome.data.gradient_results_sets) < constraint.max_num_cnt

\* The value GetValues reports for a set
valueOf(grs) ==
    grs.coeff * maxErrorVariant(grs, constraint.vars0_fixed, constraint.vars1_fixed)

\* FillJacobianBlock compared the sets of a baseline with those of a
\* perturbed run
Differenced ==
    /\ outcome.call = "FillJacobianBlock"
    /\ outcome.var_set # "other"
    /\ outcome.baseline.gradient_results_sets # << >>

\* C25: in the numerical Jacobian the baseline set i is matched to the
\* perturbed set with the same pair key and shape key, at whatever place; the
\* entry of a matched set is (perturbed value - baseline value) / delta, and
\* the entry of an unmatched set is (-margin_buffer - baseline value) / delta,
\* with value = coeff * maxError as GetValues reports it.
C25_UnmatchedValueIsMarginBuffer ==
    Differenced =>
        LET sets == outcome.baseline.gradient_results_sets
            sets_delta == outcome.perturbed.gradient_results_sets
            cnt == Min2(Len(constraint.bounds), Len(sets))
        IN  \A i \in 1..cnt :
               LET found == { k \in 1..Len(sets_delta) :
                                /\ sets_delta[k].key = sets[i].key
                                /\ sets_delta[k].shape_key = sets[i].shape_key }
               IN  /\ \A k \in found :
                         outcome.jac_block[<<i - 1, 0>>] =
                             Frac(valueOf(sets_delta[k]) - valueOf(sets[i]), delta)
                   /\ found = {} =>
                         outcome.jac_block[<<i - 1, 0>>] =
                             Frac((-collision_config.collision_margin_buffer)
                                      - valueOf(sets[i]), delta)

\* The entries of the matched sets are the differences of the values, also
\* when the perturbed set is at another place
MatchedEntriesAreDifferences ==
    Differenced =>
        LET sets == outcome.baseline.gradient_results_sets
            sets_delta == outcome.perturbed.gradient_results_sets
            cnt == Min2(Len(constraint.bounds), Len(sets))
        IN  \A i \in 1..cnt : \A k \in 1..Len(sets_delta) :
               (sets_delta[k].key = sets[i].key
                    /\ sets_delta[k].shape_key = sets[i].shape_key)
               => outcome.jac_block[<<i - 1, 0>>] =
                      Frac(valueOf(sets_delta[k]) - valueOf(sets[i]), delta)

\* A baseline set was matched to a perturbed set at another place, with
\* another value
MatchedAtAnotherPlace ==
    /\ Differenced
    /\ \E i \in 1..Min2(Len(constraint.bounds),
                        Len(outcome.baseline.gradient_results_sets)) :
          \E k \in 1..Len(outcome.perturbed.gradient_results_sets) :
             LET b == outcome.baseline.gradient_results_sets[i]
                 p == outcome.perturbed.gradient_results_sets[k]
             IN  /\ k # i
                 /\ p.key = b.key /\ p.shape_key = b.shape_key
                 /\ valueOf(p) # valueOf(b)

\* C26: for a constraint built with fixed_sparsity = true, after every
\* FillJacobianBlock call for one of its variable sets the stored entries of
\* the block are exactly the (i, j) with 0 <= i < max_num_cnt and
\* 0 <= j < n_dof, whatever the number of contacts found.
C26_SparsityPatternIsFixed ==
    ( /\ outcome.call = "FillJacobianBlock"
      /\ outcome.var_set # "other"
      /\ constraint.fixed_sparsity ) =>
        DOMAIN outcome.jac_block =
            { <<i, j>> : i \in 0..(constraint.max_num_cnt - 1),
                         j \in 0..(constraint.n_dof - 1) }

\* A constraint with fixed sparsity and three rows found one set and wrote
\* one entry that is not zero; the other rows stay stored
C26_Witness ==
    /\ outcome.call = "FillJacobianBlock"
    /\ outcome.var_set # "other"
    /\ constraint.fixed_sparsity
    /\ constraint.max_num_cnt = MaxNumCnt
    /\ Len(outcome.baseline.gradient_results_sets) = 1
    /\ outcome.jac_block[<<0, 0>>] # <<0, 1>>
    /\ outcome.jac_block[<<1, 0>>] = <<0, 1>>

\* Without fixed sparsity the stored entries change with the number of sets
PatternFollowsContacts ==
    /\ outcome.call = "FillJacobianBlock"
    /\ outcome.var_set # "other"
    /\ ~constraint.fixed_sparsity
    /\ constraint.max_num_cnt = MaxNumCnt
    /\ Cardinality(DOMAIN outcome.jac_block) = 1

\* C30: the constructor throws std::runtime_error("position_vars contains a
\* nullptr!") whenever either entry of position_vars is null, before any
\* entry is dereferenced.
C30_NullptrThrows ==
    ( /\ outcome.call = "constructor"
      /\ \E k \in 1..2 : outcome.position_vars[k].null ) =>
        /\ outcome.thrown = ContainsNullptr
        /\ outcome.signal = "none"

\* The constructor threw the nullptr error for two null entries
BothNullThrows ==
    /\ outcome.call = "constructor"
    /\ outcome.position_vars[1].null
    /\ outcome.position_vars[2].null
    /\ outcome.thrown = ContainsNullptr


---------------------------------------------------------------------------
(* The calls made of the QP solver, and the callbacks *)

\* The calls stepSQPSolver() makes after clear(), in the order of the code
InitCalls ==
    <<"init", "updateHessianMatrix", "updateGradient",
      "updateLinearConstraintsMatrix", "updateBounds">>

\* After the calls of stepSQPSolver(), calls is solve(), updateBounds(),
\* solve(), updateBounds(), and so on
SolvesAndBoundsAlternate(calls) ==
    \A i \in (Len(InitCalls) + 1)..Len(calls) :
        calls[i] = IF (i - Len(InitCalls)) % 2 = 1 THEN "solve"
                                                   ELSE "updateBounds"

\* C28: every qp_solver->solve() is preceded, since the latest clear(), by
\* init(), updateHessianMatrix(), updateGradient(),
\* updateLinearConstraintsMatrix() and updateBounds() in that order, with the
\* data of the problem convexified at its current variables; between two
\* solves of one trust-region loop updateBounds() is the only call; and the
\* bounds the QP solver holds at a solve are those of the current box.
C28_SolveFollowsInitAndBounds ==
    pc = "qp" =>
        /\ Len(qp_solver.calls) >= Len(InitCalls)
        /\ SubSeq(qp_solver.calls, 1, Len(InitCalls)) = InitCalls
        /\ SolvesAndBoundsAlternate(qp_solver.calls)
        /\ qp_solver.calls[Len(qp_solver.calls)] = "updateBounds"
        /\ qp_solver.matrices_at = qp_vars
        /\ qp_solver.matrices_at = results.best_var_vals
        /\ qp_solver.bounds = results.box_size

\* The third solve of one trust-region loop is about to be made, the box
\* having been changed after each of the two before it
C28_Witness ==
    /\ pc = "qp"
    /\ Len(qp_solver.calls) = Len(InitCalls) + 4
    /\ results.trust_region_iteration = 2
    /\ qp_solver.bounds = results.box_size
    /\ qp_solver.bounds # init(params, <<0>>, << >>).box_size

\* The latest pass of the trust-region loop solved its QP
QPWasSolved ==
    hist.event \in {"callback_stopped", "small_improvement", "rejected", "accepted"}

\* The callbacks in the order of their registration
RegistrationOrder == [i \in 1..callbacks |-> i]

\* C29: after a successful QP solve every registered callback is executed
\* exactly once, in registration order, also when an earlier one returned
\* false; the callbacks are executed with the problem's variables set back
\* to best_var_vals and before the step is accepted or rejected; after a
\* failed QP solve no callback is executed.
C29_AllCallbacksRunInOrder ==
    /\ QPWasSolved =>
          /\ hist.executed.order = RegistrationOrder
          /\ Len(hist.executed.returned) = callbacks
          /\ hist.executed.qp_vars = hist.executed.best_var_vals
          /\ (hist.event = "callback_stopped") =
                (\E i \in 1..callbacks : ~hist.executed.returned[i])
          /\ hist.event = "accepted" =>
                /\ results.box_size =
                      Scale(hist.executed.box_size, params.trust_expand_ratio)
                /\ results.best_var_vals = results.new_var_vals
                /\ qp_vars = results.new_var_vals
          /\ (hist.event = "rejected" /\ pc = "trust_loop") =>
                /\ results.box_size =
                      Scale(hist.executed.box_size, params.trust_shrink_ratio)
                /\ results.best_var_vals = hist.executed.best_var_vals
    /\ hist.event = "qp_failed" => hist.executed.order = << >>

\* Two callbacks are registered, the first returned false and the second was
\* executed all the same
C29_Witness ==
    /\ callbacks = 2
    /\ hist.event = "callback_stopped"
    /\ hist.executed.order = <<1, 2>>
    /\ hist.executed.returned = <<FALSE, TRUE>>
    /\ hist.executed.qp_vars = results.best_var_vals

\* Two callbacks were executed before a step to another iterate was accepted
AcceptedAfterCallbacks ==
    /\ callbacks = 2
    /\ hist.event = "accepted"
    /\ hist.executed.order = <<1, 2>>
    /\ hist.executed.best_var_vals # results.best_var_vals

\* Two callbacks are registered and the QP solve of the latest pass failed
NoneExecutedAfterFailure ==
    /\ callbacks = 2
    /\ hist.event = "qp_failed"
    /\ hist.accepted > 0

---------------------------------------------------------------------------
(* The constructor's tests, and the calls that do nothing *)

\* The latest call was the constructor, given two position variables that
\* exist
ConstructorCalled ==
    /\ outcome.call = "constructor"
    /\ ~outcome.position_vars[1].null
    /\ ~outcome.position_vars[2].null

\* What the constructor was given is one of the four cases it rejects
Rejected ==
    \/ outcome.vars0_fixed /\ outcome.vars1_fixed
    \/ outcome.max_num_cnt < 1
    \/ outcome.position_vars[1].rows # outcome.position_vars[2].rows
    \/ outcome.position_vars[1].rows = 0

\* C31: given two position variables, the constructor throws
\* std::runtime_error and constructs no constraint when both are marked
\* fixed, when max_num_cnt < 1, when their sizes differ or when the first has
\* no rows; in every other case it returns and the constraint has exactly
\* max_num_cnt bounds.
C31_ConstructorRejectsOrMakesBounds ==
    ConstructorCalled =>
        /\ outcome.signal = "none"
        /\ Rejected => /\ outcome.thrown \in {IsEmpty, NotSameSize, BothFixed,
                                              NotGreaterThanZero}
                       /\ ~constraint.built
        /\ ~Rejected => /\ outcome.thrown = "none"
                        /\ constraint.built
                        /\ Len(constraint.bounds) = outcome.max_num_cnt
                        /\ constraint.max_num_cnt = outcome.max_num_cnt

\* The constructor was given max_num_cnt = 0 and nothing else to reject
C31_Witness ==
    /\ ConstructorCalled
    /\ outcome.max_num_cnt = 0
    /\ ~(outcome.vars0_fixed /\ outcome.vars1_fixed)
    /\ outcome.position_vars[1].rows = 1
    /\ outcome.position_vars[2].rows = 1
    /\ outcome.thrown = NotGreaterThanZero
    /\ ~constraint.built

\* The constructor returned with MaxNumCnt bounds
ConstructedWithBounds ==
    /\ ConstructorCalled
    /\ outcome.thrown = "none"
    /\ Len(constraint.bounds) = MaxNumCnt

\* Each of the other three rejections
RejectedForEachReason ==
    \/ ConstructorCalled /\ outcome.thrown = IsEmpty
    \/ ConstructorCalled /\ outcome.thrown = NotSameSize
    \/ ConstructorCalled /\ outcome.thrown = BothFixed

\* A call of FillJacobianBlock with the name of a variable set that is not
\* one of the constraint's
CalledForAnotherSet ==
    /\ constraint.built
    /\ outcome' # outcome
    /\ outcome'.call = "FillJacobianBlock"
    /\ outcome'.var_set = "other"

\* C32: FillJacobianBlock(var_set, jac_block) with a var_set that names
\* neither position variable leaves jac_block as it was given, here without
\* a stored entry, and makes no collision evaluation: the evaluator, its
\* cache and the contact manager are as before.
C32_OtherVarSetChangesNothing ==
    [][ CalledForAnotherSet =>
            /\ outcome'.jac_block = << >>
            /\ outcome'.baseline = CollisionCacheData
            /\ UNCHANGED <<evaluatorVars, constraint, joint_vals>>
      ]_vars

\* FillJacobianBlock was called for another set on a constraint with fixed
\* sparsity, in collision, before any collision evaluation was made
C32_Witness ==
    /\ constraint.built
    /\ outcome.call = "FillJacobianBlock"
    /\ outcome.var_set = "other"
    /\ outcome.jac_block = << >>
    /\ constraint.triplet_list # {}
    /\ joint_vals # <<0, 0>>
    /\ reply = NoReply
    /\ collision_cache = {}

\* A call of FillJacobianBlock for var_set whose baseline has contacts, so
\* that the perturbed evaluation is made; reply is then that evaluation
DifferencedFor(var_set) ==
    /\ constraint.built
    /\ <<outcome, reply>>' # <<outcome, reply>>
    /\ outcome'.call = "FillJacobianBlock"
    /\ outcome'.var_set = var_set
    /\ outcome'.baseline.gradient_results_sets # << >>

\* For the first position variable the perturbed evaluation is at
\* (x0 + delta, x1), and the block is the difference of the two evaluations
FirstSetDifferencesX0 ==
    [][ DifferencedFor("position_vars[0]") =>
            /\ reply'.dof_vals0 = joint_vals[1] + delta
            /\ reply'.dof_vals1 = joint_vals[2]
            /\ outcome'.perturbed = reply'.data
      ]_vars

\* C33: the block FillJacobianBlock(var_set) writes is the forward
\* difference of the constraint values in the joints of that variable set:
\* the perturbed evaluation is at (x0 + delta, x1) when var_set names the
\* first position variable and at (x0, x1 + delta) when it names the second.
C33_PerturbsTheNamedSet ==
    [][ /\ DifferencedFor("position_vars[0]") =>
              /\ reply'.dof_vals0 = joint_vals[1] + delta
              /\ reply'.dof_vals1 = joint_vals[2]
        /\ DifferencedFor("position_vars[1]") =>
              /\ reply'.dof_vals0 = joint_vals[1]
              /\ reply'.dof_vals1 = joint_vals[2] + delta
      ]_vars

\* FillJacobianBlock was called for the second position variable, free, with
\* the first fixed, and the perturbed evaluation was made with x0 moved
SecondSetDifferencesX0 ==
    /\ constraint.built
    /\ constraint.vars0_fixed
    /\ outcome.call = "FillJacobianBlock"
    /\ outcome.var_set = "position_vars[1]"
    /\ outcome.baseline.gradient_results_sets # << >>
    /\ reply.dof_vals0 # reply.dof_vals1
    /\ \E e \in DOMAIN outcome.jac_block : outcome.jac_block[e] # <<0, 1>>

---------------------------------------------------------------------------
(* What solve() returns with *)

\* The convexification loop has ended with the status NLP_CONVERGED of a
\* trust-region loop (small improvement, or a tiny box) while a constraint
\* is violated
ConvergedWithViolation ==
    /\ pc = "convex_done"
    /\ status = "NLP_CONVERGED"
    /\ ~verifySQPSolverConvergence(params, results)

\* C34: when solve() returns with NLP_CONVERGED, the problem has no
\* constraints or every best constraint violation of the returned results is
\* below cnt_tolerance; a convergence of the trust-region loop with a
\* violated constraint is followed by a penalty adjustment, with the status
\* set back to RUNNING.
C34_ConvergedMeansSatisfied ==
    [][ /\ (pc' = "done" /\ status' = "NLP_CONVERGED") =>
              /\ ConstraintsSatisfied'
              /\ verifySQPSolverConvergence(params', results')
        /\ ConvergedWithViolation =>
              /\ pc' = "penalty_loop"
              /\ status' = "RUNNING"
              /\ hist'.adjusts = hist.adjusts + 1
              /\ results' = adjustPenalty(params, results)
      ]_vars

\* solve() has returned NLP_CONVERGED for a problem with constraints after a
\* penalty adjustment
C34_Witness ==
    /\ pc = "done"
    /\ status = "NLP_CONVERGED"
    /\ hist.adjusts > 0
    /\ Len(results.best_constraint_violations) > 0
    /\ ConstraintsSatisfied
    /\ hist.accepted > 0

\* solve() has returned after a trust-region loop converged with a violated
\* constraint in its last penalty iteration
ConvergedStepEndsAtPenaltyLimit ==
    /\ pc = "done"
    /\ status = "PENALTY_ITERATION_LIMIT"
    /\ hist.event = "none"
    /\ hist.adjusts = params.max_merit_coeff_increases
    /\ hist.adjusts > 0
    /\ ~ConstraintsSatisfied

\* The merit of the best iterate with the current coefficients
BestMerit ==
    Sum(results.best_costs)
      + Dot(results.merit_error_coeffs, results.best_constraint_violations)

\* C35: from init() on, and so wherever the trust-region loop tests a step
\* and when solve() returns, best_exact_merit is sum(best_costs) +
\* merit_error_coeffs . best_constraint_violations, where best_costs and
\* best_constraint_violations are what the problem evaluated at
\* best_var_vals; an accepted step and a penalty adjustment keep it so.
C35_BestMeritIsOfBestIterate ==
    pc # "idle" =>
        /\ results.best_exact_merit = BestMerit
        /\ results.best_var_vals = hist.at_best.x
        /\ results.best_costs = hist.at_best.costs
        /\ results.best_constraint_violations = hist.at_best.viols
        /\ Len(results.merit_error_coeffs) = Len(results.best_constraint_violations)

\* solve() has returned after an accepted step and a penalty adjustment that
\* changed the merit of the best iterate
C35_Witness ==
    /\ pc = "done"
    /\ hist.accepted > 0
    /\ hist.adjusts > 0
    /\ results.best_var_vals # 0
    /\ results.best_exact_merit # Sum(results.best_costs)
    /\ \E i \in DOMAIN results.merit_error_coeffs :
          /\ results.merit_error_coeffs[i] # params.initial_merit_error_coeff
          /\ results.best_constraint_violations[i] > 0

\* A step is being tested in the trust-region loop after a penalty adjustment
\* that changed the merit of the best iterate
StepTestedAfterAdjustment ==
    /\ pc = "qp"
    /\ hist.adjusts > 0
    /\ results.best_exact_merit # Sum(results.best_costs)
    /\ \E i \in DOMAIN results.merit_error_coeffs :
          results.merit_error_coeffs[i] # params.initial_merit_error_coeff

\* C37: results.overall_iteration is the number of qp_solver->solve() calls
\* made so far in the current solve(), failed and callback-stopped ones
\* included; the budget being tested only where a convexification starts,
\* the solves made before the current trust-region loop are fewer than
\* max_iterations, and the loop's own solves come on top.
C37_OverallIterationCountsSolves ==
    pc # "idle" =>
        /\ results.overall_iteration = hist.qp_solves
        /\ results.trust_region_iteration <= hist.qp_solves
        /\ hist.qp_solves - results.trust_region_iteration < params.max_iterations
        /\ pc = "qp" =>
              hist.qp_solves < params.max_iterations + results.trust_region_iteration

\* More QPs than max_iterations have been solved in one solve(), a failed
\* solve among them
C37_Witness ==
    /\ results.overall_iteration > params.max_iterations
    /\ hist.qp_solves = results.overall_iteration
    /\ hist.event = "qp_failed"
    /\ results.trust_region_iteration > 1

\* The same with a solve stopped by a callback
StoppedSolvesAreCounted ==
    /\ results.overall_iteration > params.max_iterations
    /\ hist.event = "callback_stopped"
    /\ hist.qp_solves = results.overall_iteration

\* The statuses solve() can leave behind when it returns
ReturnedStatuses ==
    {"NLP_CONVERGED", "ITERATION_LIMIT", "OPT_TIME_LIMIT",
     "PENALTY_ITERATION_LIMIT"}

\* C39: when solve() has returned, the status is not RUNNING but one of the
\* terminal statuses, and it is PENALTY_ITERATION_LIMIT whenever the penalty
\* loop ran out of iterations, also when max_merit_coeff_increases is 0 and
\* no QP was solved.
C39_ReturnedStatusIsTerminal ==
    pc = "done" =>
        /\ status /= "RUNNING"
        /\ status \in ReturnedStatuses
        /\ PenaltyLoopExhausted => status = "PENALTY_ITERATION_LIMIT"

\* A solve() with max_merit_coeff_increases = 0 has returned without solving
\* a QP
C39_Witness ==
    /\ pc = "done"
    /\ params.max_merit_coeff_increases = 0
    /\ PenaltyLoopExhausted
    /\ hist.qp_solves = 0
    /\ status = "PENALTY_ITERATION_LIMIT"

\* A solve() whose penalty loop ran out after solving QPs has returned
PenaltyLoopRanOutAfterSolves ==
    /\ PenaltyLoopExhausted
    /\ params.max_merit_coeff_increases > 0
    /\ hist.qp_solves > 0
    /\ status = "PENALTY_ITERATION_LIMIT"

\* The vectors SetBounds is called with: those its assertion
\* bounds.size() == 1 admits, so that the call does the same in a build with
\* assertions and in one without
SetBoundsArguments == { <<BoundSmallerZero>> }

\* ContinuousCollisionNumericalConstraint::GetBounds
GetBounds == constraint.bounds

\* ContinuousCollisionNumericalConstraint::SetBounds(bounds): bounds_ is
\* replaced, whatever max_num_cnt is
SetBounds ==
    /\ constraint.built
    /\ \E bounds \in SetBoundsArguments :
          /\ Len(bounds) = 1
          /\ constraint' = [constraint EXCEPT !.bounds = bounds]
          /\ outcome' = [ call |-> "SetBounds", bounds |-> bounds ]
    /\ UNCHANGED <<joint_vals, evaluatorVars, solverVars>>

\* The evaluator and the problem as built with one of the segment lengths, no
\* constraint yet
BoundsInit ==
    /\ ConstraintInit
    /\ collision_config.longest_valid_segment_length = 1

\* The operations of the constraint, SetBounds among them
BoundsNext ==
    \/ construct
    \/ setVariables
    \/ GetValues
    \/ FillJacobianBlock
    \/ SetBounds

BoundsSpec == BoundsInit /\ [][BoundsNext]_vars

\* C38 as stated: after any sequence of operations, SetBounds among them,
\* GetBounds returns max_num_cnt bounds, GetValues returns max_num_cnt values
\* and FillJacobianBlock addresses rows below max_num_cnt only.
C38_RowCountIsMaxNumCnt ==
    constraint.built =>
        /\ Len(GetBounds) = constraint.max_num_cnt
        /\ outcome.call = "GetValues" =>
              Len(outcome.values) = constraint.max_num_cnt
        /\ outcome.call = "FillJacobianBlock" =>
              \A e \in DOMAIN outcome.jac_block : e[1] < constraint.max_num_cnt

\* GetValues returned one value for a constraint declared with MaxNumCnt
\* rows, after a SetBounds whose assertion held
OneValueForMaxNumCntRows ==
    /\ constraint.built
    /\ constraint.max_num_cnt = MaxNumCnt
    /\ outcome.call = "GetValues"
    /\ Len(outcome.values) = 1

\* FillJacobianBlock wrote one row of a constraint declared with MaxNumCnt
\* rows, at joint values with more than one contact set, after a SetBounds
OneRowForMaxNumCntRows ==
    /\ constraint.built
    /\ constraint.max_num_cnt = MaxNumCnt
    /\ ~constraint.fixed_sparsity
    /\ outcome.call = "FillJacobianBlock"
    /\ Len(outcome.baseline.gradient_results_sets) > 1
    /\ DOMAIN outcome.jac_block = { <<0, 0>> }

\* Without SetBounds the sizes are those of the constructor
BoundsAsConstructed ==
    constraint.built =>
        /\ Len(GetBounds) = constraint.max_num_cnt
        /\ outcome.call = "GetValues" =>
              Len(outcome.values) = constraint.max_num_cnt

\* The steps solve() takes between its call and its return
solveSteps ==
    \/ penaltyLoop
    \/ convexLoop
    \/ trustRegionLoop
    \/ qpSolverFails
    \/ callbackStops
    \/ stepConverges
    \/ stepRejected
    \/ stepAccepted
    \/ stepDone
    \/ convexDone
    \/ finish

\* A solver just constructed whose parameters have trust_shrink_ratio in
\* (0, 1) and min_trust_box_size > 0, one penalty iteration and a budget of
\* one iteration
TerminationInit ==
    /\ pc = "idle"
    /\ params = [BaseParams EXCEPT !.max_merit_coeff_increases = 1,
                                   !.max_iterations = 1,
                                   !.initial_trust_box_size = <<1, 2>>,
                                   !.cnt_tolerance = 2]
    /\ callbacks = 0
    /\ status = "RUNNING"
    /\ results = SQPResults(0)
    /\ qp_vars = 0
    /\ qp_solver = NoQP
    /\ penalty_iteration = 0
    /\ convex_iteration = 1
    /\ qp_solver_failures = 0
    /\ hist = NoHistory
    /\ noEvaluator
    /\ noConstraint

\* The solver when the thread that called solve() keeps running and the QP
\* solver and the callbacks return: a step of solve() that can be taken is
\* taken
TerminationSpec == TerminationInit /\ [][Next]_vars /\ WF_vars(solveSteps)

\* solve() has been called and has not returned
InSolve == pc \notin {"idle", "done"}

LoopEndedByFailureLadder ==
    /\ pc = "step_done"
    /\ hist.event = "qp_failed"
    /\ qp_solver_failures > params.max_qp_solver_failures

\* A trust-region loop has ended because a rejected step shrank the box below
\* min_trust_box_size
LoopEndedByTinyBox ==
    /\ pc = "step_done"
    /\ hist.event = "rejected"
    /\ boxIsTiny(params, results)
==========================================================================
